---- MODULE Spec2Model ----
(***************************************************************************)
(* CivitaiMediaHoarder: the retry queue (core/retry_queue.py), the media   *)
(* downloader (core/downloader.py) and the repair manager                  *)
(* (core/repair_manager.py) as state machines.                             *)
(*                                                                         *)
(* Three specifications share the variables:                               *)
(*   SpecRQ           the RetryQueue: foreground calls of add, start and   *)
(*                    stop interleaved with its worker threads             *)
(*   SpecRQScenario   the RetryQueue with a download function that always  *)
(*                    fails or that fails once, under a fair scheduler     *)
(*   SpecRQWait       the RetryQueue with a foreground thread that calls   *)
(*                    wait_for_completion                                  *)
(*   SpecRQBatch      the RetryQueue fed with the failures of a batch      *)
(*   SpecDL           MediaDownloader.download_files, item by item         *)
(*   SpecRepair       RepairManager.repair_videos                          *)
(*   SpecTracker      ExtensionCorrectionTracker.record called from the    *)
(*                    foreground thread and from the retry worker          *)
(*   SpecSniff        ExtensionHandler.detect_format on files made of a    *)
(*                    magic prefix and appended bytes                      *)
(*   SpecCorrect      validate_and_correct_file and the tracker as the     *)
(*                    downloader and the folder scan call them             *)
(*   SpecProbe        VideoValidator.validate_video over the outcomes of   *)
(*                    the ffprobe call                                     *)
(*   SpecScan         VideoValidator.scan_creator_images over a folder     *)
(*   SpecDownloadScan download_files followed by the folder scan, both     *)
(*                    on the process-wide tracker                          *)
(*   SpecLock         two invocations of the tool streaming to one output  *)
(*                    path, on a host with fcntl or with no lock primitive *)
(*   SpecRetryFiles   download_files with the retry worker running         *)
(*                    _retry_download on the same files                    *)
(*   SpecCallers      process_creator and the repair loop around           *)
(*                    download_files and the retry queue                   *)
(***************************************************************************)
EXTENDS Integers, Sequences, FiniteSets, TLC

(***************************************************************************)
(* Bounds of the model                                                     *)
(***************************************************************************)
MaxMaxRetries == 4      \* max_retries is drawn from 1..MaxMaxRetries
MaxAdds == 1            \* add() calls made on one queue
MaxThreads == 2         \* worker threads alive or finished at one time
MaxItems == 2           \* length of the list passed to download_files
MaxUrls == 1            \* distinct non-empty URLs
MaxCreators == 2        \* creators listed in a report
MaxTimeout == 2         \* wait_for_completion timeouts, in poll intervals
MaxRecords == 2         \* record() calls one thread makes on the tracker
MaxChunks == 3          \* byte groups appended to a magic prefix
MaxDuration == 5        \* largest stream duration the probe reports (s)
MaxFrames == 2          \* largest nb_frames the probe reports
MaxRate == 2            \* largest numerator and denominator of r_frame_rate
MaxFiles == 2           \* files in the folder a scan starts on
MaxBlocks == 2          \* chunks of one streamed response
MaxEntries == 2         \* entries in one creator's list

Threads == 1..MaxThreads
NoThread == 0

\* URLs: 0 is a missing or empty url; odd URLs end in .jpg, even ones in .mp4
Urls == 1..MaxUrls
NoUrl == 0
Exts == {".jpg", ".mp4"}
Folders == {"Images", "Videos"}
Paths == [folder : Folders, name : Urls, ext : Exts]
NoPath == [folder |-> "none", name |-> 0, ext |-> "none"]
NoItem == [id |-> 0, url |-> 0, out_path |-> NoPath,
           retry_count |-> 0, last_error |-> "none"]

VARIABLES
    \* ---- RetryQueue (retry_queue.py:67-78)
    max_retries,          \* _config.max_retries
    queue,                \* _queue: deque of FailedDownload
    permanently_failed,   \* _permanently_failed
    successful_retries,   \* _successful_retries
    is_running,           \* _is_running
    stop_event,           \* _stop_event
    worker_thread,        \* _worker_thread: the Thread start() made last
    wpc,                  \* position of each worker thread in _worker_loop
    witem,                \* the FailedDownload a worker holds (local `item`)
    mainpc,               \* foreground thread: "ready" or inside stop()'s join
    behaviour,            \* the download function handed to the queue
    \* ---- history of the RetryQueue
    added,                \* number of add() calls so far
    attempts,             \* per item: calls of the download function
    owed,                 \* per item: the items that were in the queue
                          \* when it last failed, not attempted since
    outcome,              \* per item: "none", "pending", "success", "failed"
    sinceStop             \* per live worker: download calls since stop_event
                          \* was set

VARIABLES
    \* ---- RetryQueue.wait_for_completion (retry_queue.py:150-169)
    wait_timeout,         \* the timeout argument, NoTimeout for None
    wait_elapsed,         \* time.time() - start_time, in poll intervals
    wait_result           \* what the call returned: "none", "true", "false"

waitvars == <<wait_timeout, wait_elapsed, wait_result>>

VARIABLES
    \* ---- ExtensionCorrectionTracker (extension_tracker.py:45-101)
    corrections,          \* _corrections: path -> (old, new)
    tpc,                  \* position of each calling thread in record()
    targs,                \* the arguments of each thread's record() call
    \* ---- history of the tracker
    tcalls,               \* record() calls each thread has completed
    twritten              \* per path: the (old, new) pairs record() was
                          \* called with, by calls that have completed

trackervars == <<corrections, tpc, targs, tcalls, twritten>>

VARIABLES
    \* ---- ExtensionHandler.detect_format on a signature's files
    sniff_sig,            \* index of the signature in SIGNATURES
    sniff_trail,          \* the bytes appended to its magic prefix
    sniff_pc,             \* "minimal", "appended", "done"; "idle" if unused
    sniff_minimal,        \* detect_format of the file that is the prefix
    sniff_appended        \* detect_format of prefix + appended bytes

sniffvars == <<sniff_sig, sniff_trail, sniff_pc, sniff_minimal,
               sniff_appended>>

VARIABLES
    \* ---- extension correction of the files of one folder
    disk,                 \* path -> [exists, bytes]
    config,               \* [image, video]: the configured extension lists
    cpc,                  \* "ready", "written"; "idle" if unused
    out_file,             \* the path the download in progress wrote
    last_call             \* what the last validate_and_correct_file call did

correctvars == <<disk, config, cpc, out_file, last_call>>

VARIABLES
    \* ---- VideoValidator.validate_video
    vpc,                  \* "ready", "probed", "done"; "idle" if unused
    probe_out,            \* what subprocess.run of ffprobe gave
    vresult               \* what validate_video returned, or that it raised

probevars == <<vpc, probe_out, vresult>>

VARIABLES
    \* ---- VideoValidator.scan_creator_videos on the Images folder
    scan                  \* [pc, apply_corrections, todo, results,
                          \*  invalid_count, incorrect_count, judged]

VARIABLES
    \* ---- process_creator, the repair loop and _retry_download
    proc                  \* [pc, ...]: the caller of download_files and the
                          \* file the worker's download function has open

VARIABLES
    \* ---- the streamed path of download_files run by two invocations
    host,                 \* [primitive, lock_policy]
    store,                \* [path, inodes]: the output path and the files
    inv,                  \* invocation -> [pc, fd, lock_acquired, written,
                          \*                error, outcome]
    interfered            \* what was done to a file another invocation
                          \* held locked

lockvars == <<host, store, inv, interfered>>

VARIABLES
    \* ---- MediaDownloader.download_files (downloader.py:204-494)
    items,                \* the list of items, each the URL id of its "url"
    enable_retry_queue,   \* _enable_retry_queue
    lock_policy,          \* lock_policy
    fs,                   \* the files on disk: path -> "absent", "empty",
                          \* "partial" (some of the body) or "complete"
    dlpc,                 \* position of the foreground thread
    call,                 \* which call of download_files this is: the
                          \* "first", or the "second" with the same items
    idx,                  \* index of `item` in the for loop
    out_path,             \* local out_path
    handle,               \* a file object of the foreground is open
    lock_acquired,        \* local lock_acquired
    successful_downloads, \* locals that make the returned tuple
    images_downloaded,
    videos_downloaded,
    downloaded_extensions,\* self.downloaded_extensions
    \* ---- history of download_files
    log                   \* what the loop did with the item it is at, or
                          \* (done) with the item it has just moved past

VARIABLES
    \* ---- RepairManager.repair_videos (repair_manager.py:150-291)
    report_file,          \* InvalidVideos.json as it is on disk
    report,               \* local report: what load_report returned
    rpc,                  \* position of the foreground thread
    ci,                   \* index of the creator in creators_data.items()
    ei,                   \* index of video_entry in invalid_videos
    total_videos,         \* local total_videos
    total_succeeded,      \* local total_succeeded
    removed_count,        \* local removed_count of the creator at hand
    result,               \* the tuple repair_videos returned
    \* ---- history of repair_videos
    report_given,         \* the report file as it was when the call began
    proceeded,            \* the repair was confirmed
    removed,              \* files the removal phases have deleted
    download_calls,       \* calls of download_files made
    redownloaded          \* entries whose call reported a download

rpvars == <<report_file, report, rpc, ci, ei, total_videos, total_succeeded,
            removed_count, result, report_given, proceeded, removed,
            download_calls, redownloaded>>

dlvars == <<items, enable_retry_queue, lock_policy, fs, dlpc,
            call, idx, out_path, handle, lock_acquired,
            successful_downloads, images_downloaded, videos_downloaded,
            downloaded_extensions, log>>

rqvars == <<max_retries, queue, permanently_failed, successful_retries,
            is_running, stop_event, worker_thread, wpc, witem, mainpc,
            behaviour, added, attempts, owed, outcome, sinceStop>>

vars == <<rqvars, dlvars, rpvars, waitvars, trackervars, sniffvars,
          correctvars, probevars, scan, lockvars,
          proc>>

\* What the RetryQueue's operations leave alone, and what download_files
\* leaves alone (it touches the queue only through add()).
outsideRQ == <<dlvars, rpvars, waitvars, trackervars, sniffvars,
               correctvars, probevars, scan, lockvars,
               proc>>
outsideDL == <<max_retries, permanently_failed, successful_retries,
               is_running, stop_event, worker_thread, wpc, witem, mainpc,
               behaviour, added, attempts, owed, outcome, sinceStop, rpvars,
               waitvars, trackervars, sniffvars, correctvars, probevars, scan,
               lockvars,
               proc>>
outsideRepair == <<rqvars, dlvars, waitvars, trackervars, sniffvars,
                   correctvars, probevars, scan, lockvars,
                   proc>>
outsideWait == <<dlvars, rpvars, trackervars, sniffvars, correctvars,
                 probevars, scan, lockvars,
                 proc>>
outsideTracker == <<rqvars, dlvars, rpvars, waitvars, sniffvars, correctvars,
                    probevars, scan, lockvars,
                    proc>>
outsideSniff == <<rqvars, dlvars, rpvars, waitvars, trackervars, correctvars,
                  probevars, scan, lockvars,
                  proc>>
outsideCorrect == <<rqvars, dlvars, rpvars, waitvars, sniffvars,
                    tpc, targs, tcalls, twritten, probevars, scan, lockvars,
                    proc>>
outsideProbe == <<rqvars, dlvars, rpvars, waitvars, trackervars, sniffvars,
                  correctvars, scan, lockvars,
                  proc>>
outsideScan == <<rqvars, dlvars, rpvars, waitvars, sniffvars, probevars,
                 tpc, targs, tcalls, twritten, config, cpc, out_file,
                 last_call, lockvars,
                 proc>>
outsideLock == <<rqvars, dlvars, rpvars, waitvars, trackervars, sniffvars,
                 correctvars, probevars, scan,
                 proc>>

\* Items are numbered by the add() call that queued them, or by their
\* place in the list download_files was given
Ids == 1..(IF MaxAdds > MaxItems THEN MaxAdds ELSE MaxItems)
Behaviours == {"always_fail", "fail_once", "any"}

\* The report file: what json.load makes of it. A file that is a report
\* in its top-level shape lists creators, each with a value that is a list
\* of entries or something else; an entry is known by the keys it has.
TopKinds == {"missing", "malformed_json", "not_object", "no_generated_at",
             "no_creators", "generated_at_not_str", "creators_not_object"}
EntryKinds == {"ok", "no_filename", "no_path"}
EntryLists == UNION {[1..n -> EntryKinds] : n \in 0..MaxEntries}
CreatorValues == {[is_list |-> FALSE, entries |-> <<>>]} \cup
                 {[is_list |-> TRUE, entries |-> s] : s \in EntryLists}
CreatorsObjects == UNION {[1..n -> CreatorValues] : n \in 0..MaxCreators}
ReportFiles == {[kind |-> k, creators |-> <<>>] : k \in TopKinds} \cup
               {[kind |-> "report", creators |-> cs] : cs \in CreatorsObjects}
ReportMissing == [kind |-> "missing", creators |-> <<>>]
None == [kind |-> "none", creators |-> <<>>]
NoResult == <<-1, -1>>

\* No repair_videos call is running.
RepairIdle ==
    /\ report_file = ReportMissing
    /\ report_given = ReportMissing
    /\ report = None
    /\ rpc = "idle"
    /\ ci = 0
    /\ ei = 0
    /\ total_videos = 0
    /\ total_succeeded = 0
    /\ removed_count = 0
    /\ result = NoResult
    /\ proceeded = FALSE
    /\ removed = 0
    /\ download_calls = 0
    /\ redownloaded = 0

\* The threads that share the tracker, the paths and the (old, new) pairs
\* they record
TrackerThreads == {"foreground", "worker"}
TrackerPaths == {"a.jpg", "b.jpg"}
ExtPairs == {<<".jpg", ".mp4">>, <<".jpg", ".png">>}
NoCorrection == <<"none", "none">>
NoRecordCall == [path |-> "none", pair |-> NoCorrection]

\* ExtensionCorrectionTracker.__init__ (extension_tracker.py:45-47), no
\* record() call under way
TrackerIdle ==
    /\ corrections = [p \in TrackerPaths |-> NoCorrection]
    /\ tpc = [t \in TrackerThreads |-> "idle"]
    /\ targs = [t \in TrackerThreads |-> NoRecordCall]
    /\ tcalls = [t \in TrackerThreads |-> 0]
    /\ twritten = [p \in TrackerPaths |-> {}]

\* detect_format's result when it cannot tell (extension_handler.py:61-91)
NoFormat == <<"none", "none", "none">>

\* No file is being sniffed.
SniffIdle ==
    /\ sniff_sig = 0
    /\ sniff_trail = <<>>
    /\ sniff_pc = "idle"
    /\ sniff_minimal = NoFormat
    /\ sniff_appended = NoFormat

\* No invocation is streaming.
LockIdle ==
    /\ host = [primitive |-> "none", lock_policy |-> "best_effort"]
    /\ store = [path |-> 0]
    /\ inv = <<>>
    /\ interfered = {}

\* No folder is being scanned.
ScanIdle == scan = [pc |-> "idle"]

\* No caller of download_files is modelled.
ProcIdle == proc = [pc |-> "idle"]

\* No video is being validated.
NoValue == [kind |-> "absent", n |-> 0]
NoRate == [kind |-> "absent", num |-> 0, den |-> 0]
NoProbe == [run |-> "none", codec_name |-> "absent", duration |-> NoValue,
            nb_frames |-> NoValue, r_frame_rate |-> NoRate]
NoVerdict == [kind |-> "none", valid |-> FALSE, frames |-> 0, duration |-> 0]
ProbeIdle ==
    /\ vpc = "idle"
    /\ probe_out = NoProbe
    /\ vresult = NoVerdict

\* No folder is being corrected.
NoFile == [stem |-> "none", suffix |-> "none"]
NoCall == [kind |-> "none", path |-> NoFile, returned |-> NoFile,
           os_error |-> FALSE]
CorrectIdle ==
    /\ disk = <<>>
    /\ config = [image |-> {}, video |-> {}]
    /\ cpc = "idle"
    /\ out_file = NoFile
    /\ last_call = NoCall

\* No wait_for_completion call has been made.
NoTimeout == -1
WaitIdle ==
    /\ wait_timeout = NoTimeout
    /\ wait_elapsed = 0
    /\ wait_result = "none"

\* The state of a MediaDownloader on which download_files is not running.
NoLogEntry == [call |-> "none", idx |-> 0, url |-> 0, done |-> FALSE,
               path |-> NoPath, existed |-> FALSE, requested |-> FALSE, wrote |-> FALSE,
               counted |-> FALSE, enqueued |-> 0, error |-> "none",
               carried |-> "none", file |-> FALSE]

DownloaderIdle ==
    /\ items = <<>>
    /\ enable_retry_queue = TRUE
    /\ lock_policy = "best_effort"
    /\ fs = [p \in Paths |-> "absent"]
    /\ dlpc = "idle"
    /\ call = "none"
    /\ idx = 0
    /\ out_path = NoPath
    /\ handle = FALSE
    /\ lock_acquired = FALSE
    /\ successful_downloads = 0
    /\ images_downloaded = 0
    /\ videos_downloaded = 0
    /\ downloaded_extensions = [e \in Exts |-> 0]
    /\ log = NoLogEntry

(***************************************************************************)
(* RetryQueue.__init__ (retry_queue.py:53-78); max_retries is validated    *)
(* to be an integer >= 1 (configuration/manager.py:85-89).                 *)
(***************************************************************************)
InitQueue ==
    /\ max_retries \in 1..MaxMaxRetries
    /\ queue = <<>>
    /\ permanently_failed = <<>>
    /\ successful_retries = 0
    /\ is_running = FALSE
    /\ stop_event = FALSE
    /\ worker_thread = NoThread
    /\ wpc = [w \in Threads |-> "dead"]
    /\ witem = [w \in Threads |-> NoItem]
    /\ mainpc = "ready"
    /\ added = 0
    /\ attempts = [i \in Ids |-> 0]
    /\ owed = [i \in Ids |-> {}]
    /\ outcome = [i \in Ids |-> "none"]
    /\ sinceStop = [w \in Threads |-> 0]

IdsOf(s) == {s[n].id : n \in 1..Len(s)}
Range(s) == {s[n] : n \in 1..Len(s)}

\* A thread is alive from Thread.start() until _worker_loop returns.
Alive(w) == wpc[w] \in {"loop", "get", "process"}
AliveThreads == {w \in Threads : Alive(w)}

\* threading.Thread(...) makes a new thread object; the model names it by
\* the lowest number no live thread carries.
HasFreeThread == \E w \in Threads : ~Alive(w)
FreeThread == CHOOSE w \in Threads :
                 ~Alive(w) /\ \A x \in Threads : ~Alive(x) => w <= x

\* FailedDownload(...) as add() builds it (retry_queue.py:97-104)
NewFailedDownload(i, url, path, error) ==
    [id |-> i, url |-> url, out_path |-> path,
     retry_count |-> 1, last_error |-> error]

\* RetryQueue.add (retry_queue.py:80-113), called at most n times
AddUpTo(n) ==
    /\ mainpc = "ready"
    /\ added < n
    /\ added' = added + 1
    /\ queue' = Append(queue, NewFailedDownload(added + 1, NoUrl, NoPath,
                                                "first_error"))
    /\ outcome' = [outcome EXCEPT ![added + 1] = "pending"]
    /\ UNCHANGED <<max_retries, permanently_failed, successful_retries,
                   is_running, stop_event, worker_thread, wpc, witem,
                   mainpc, behaviour, attempts, owed, sinceStop>>
    /\ UNCHANGED outsideRQ

Add == AddUpTo(MaxAdds)

\* RetryQueue.start (retry_queue.py:115-129)
Start ==
    /\ mainpc = "ready"
    /\ is_running \/ HasFreeThread
    /\ IF is_running
       THEN UNCHANGED rqvars
       ELSE \E w \in Threads :
              /\ w = FreeThread
              /\ stop_event' = FALSE
              /\ is_running' = TRUE
              /\ worker_thread' = w
              /\ wpc' = [wpc EXCEPT ![w] = "loop"]
              /\ witem' = [witem EXCEPT ![w] = NoItem]
              /\ sinceStop' = [x \in Threads |-> 0]
              /\ UNCHANGED <<max_retries, queue, permanently_failed,
                             successful_retries, mainpc, behaviour, added,
                             attempts, owed, outcome>>
    /\ UNCHANGED outsideRQ

\* RetryQueue.stop(wait=False) (retry_queue.py:131-148)
StopNoWait ==
    /\ mainpc = "ready"
    /\ IF ~is_running
       THEN UNCHANGED rqvars
       ELSE /\ stop_event' = TRUE
            /\ is_running' = FALSE
            /\ sinceStop' = [x \in Threads |-> 0]
            /\ UNCHANGED <<max_retries, queue, permanently_failed,
                           successful_retries, worker_thread, wpc, witem,
                           mainpc, behaviour, added, attempts, owed, outcome>>
    /\ UNCHANGED outsideRQ

\* RetryQueue.stop(wait=True) up to the join (retry_queue.py:138-144)
StopWaitBegin ==
    /\ mainpc = "ready"
    /\ IF ~is_running
       THEN UNCHANGED rqvars
       ELSE /\ stop_event' = TRUE
            /\ mainpc' = "join"
            /\ sinceStop' = [x \in Threads |-> 0]
            /\ UNCHANGED <<max_retries, queue, permanently_failed,
                           successful_retries, is_running, worker_thread,
                           wpc, witem, behaviour, added, attempts, owed, outcome>>
    /\ UNCHANGED outsideRQ

\* Thread.join(timeout) returns when the thread has finished or when the
\* timeout has expired, whichever is first; it never raises
\* (retry_queue.py:144-148).
JoinMayReturn(timedOut) == timedOut \/ ~Alive(worker_thread)

StopJoinReturn ==
    /\ mainpc = "join"
    /\ \E timedOut \in BOOLEAN :
          /\ JoinMayReturn(timedOut)
          /\ is_running' = FALSE
          /\ mainpc' = "ready"
    /\ UNCHANGED <<max_retries, queue, permanently_failed,
                   successful_retries, stop_event, worker_thread, wpc,
                   witem, behaviour, added, attempts, owed, outcome, sinceStop>>
    /\ UNCHANGED outsideRQ

\* `while not self._stop_event.is_set()` (retry_queue.py:204)
StopRequestedNever == FALSE
StopRequested == stop_event

WorkerCheck(w) ==
    /\ wpc[w] = "loop"
    /\ wpc' = [wpc EXCEPT ![w] = IF StopRequested THEN "dead" ELSE "get"]
    /\ sinceStop' = [sinceStop EXCEPT ![w] = 0]
    /\ UNCHANGED <<max_retries, queue, permanently_failed,
                   successful_retries, is_running, stop_event,
                   worker_thread, witem, mainpc, behaviour, added,
                   attempts, owed, outcome>>
    /\ UNCHANGED outsideRQ

\* RetryQueue._get_next_item and the empty-queue sleep
\* (retry_queue.py:205-210, 214-223)
WorkerGet(w) ==
    /\ wpc[w] = "get"
    /\ IF Len(queue) = 0
       THEN /\ wpc' = [wpc EXCEPT ![w] = "loop"]
            /\ UNCHANGED <<queue, witem>>
       ELSE /\ witem' = [witem EXCEPT ![w] = Head(queue)]
            /\ queue' = Tail(queue)
            /\ wpc' = [wpc EXCEPT ![w] = "process"]
    /\ UNCHANGED <<max_retries, permanently_failed, successful_retries,
                   is_running, stop_event, worker_thread, mainpc,
                   behaviour, added, attempts, owed, outcome, sinceStop>>
    /\ UNCHANGED outsideRQ

\* What the download function does on its k-th call for one item:
\* "ok" (returns True), "false" (returns False) or "raise".
DownloadResults(k) ==
    CASE behaviour = "always_fail" -> {"false", "raise"}
      [] behaviour = "fail_once"   -> IF k = 1 THEN {"false", "raise"}
                                               ELSE {"ok"}
      [] OTHER                     -> {"ok", "false", "raise"}

\* `if item.retry_count >= self._config.max_retries` (retry_queue.py:254)
ReachedLimitEarly(rc) == rc + 1 >= max_retries
ReachedLimit(rc) == rc >= max_retries

\* `try: success = self._download_func(...)` /
\* `except Exception: success = False` (retry_queue.py:240-245)
SuccessUnlessFalse(res) == res # "false"
Success(res) == res = "ok"

\* The item after a failed attempt (retry_queue.py:244-245, 252)
FailedAgain(it, res) ==
    [it EXCEPT !.retry_count = @ + 1,
               !.last_error = IF res = "raise" THEN "exception" ELSE @]

\* What _process_item makes of the queue, the list of permanent failures
\* and the counter when the download function's call on `it` ends as res
\* (retry_queue.py:247-270)
Processed(it, res) ==
    IF Success(res)
    THEN [queue |-> queue,
          permanently_failed |-> permanently_failed,
          successful_retries |-> successful_retries + 1,
          ended |-> "success"]
    ELSE IF ReachedLimit(FailedAgain(it, res).retry_count)
    THEN [queue |-> queue,
          permanently_failed |->
              Append(permanently_failed, FailedAgain(it, res)),
          successful_retries |-> successful_retries,
          ended |-> "failed"]
    ELSE [queue |-> Append(queue, FailedAgain(it, res)),
          permanently_failed |-> permanently_failed,
          successful_retries |-> successful_retries,
          ended |-> "pending"]

\* RetryQueue._process_item (retry_queue.py:225-270)
WorkerProcess(w) ==
    /\ wpc[w] = "process"
    /\ LET it == witem[w]
           k  == attempts[it.id] + 1
       IN \E res \in DownloadResults(k) :
            /\ attempts' = [attempts EXCEPT ![it.id] = k]
            /\ owed' = [i \in Ids |->
                          IF i = it.id /\ Processed(it, res).ended = "pending"
                          THEN IdsOf(queue)
                          ELSE owed[i] \ {it.id}]
            /\ sinceStop' = [sinceStop EXCEPT
                               ![w] = IF stop_event THEN @ + 1 ELSE @]
            /\ queue' = Processed(it, res).queue
            /\ permanently_failed' = Processed(it, res).permanently_failed
            /\ successful_retries' = Processed(it, res).successful_retries
            /\ outcome' = [outcome EXCEPT ![it.id] = Processed(it, res).ended]
    /\ wpc' = [wpc EXCEPT ![w] = "loop"]
    /\ witem' = [witem EXCEPT ![w] = NoItem]
    /\ UNCHANGED <<max_retries, is_running, stop_event, worker_thread,
                   mainpc, behaviour, added>>
    /\ UNCHANGED outsideRQ

\* RetryQueue._worker_loop (retry_queue.py:202-212), one step of it
WorkerStep(w) == WorkerCheck(w) \/ WorkerGet(w) \/ WorkerProcess(w)

\* RetryQueue.get_stats (retry_queue.py:187-200)
GetStats ==
    [pending    |-> Len(queue),
     successful |-> successful_retries,
     failed     |-> Len(permanently_failed)]

NextRQ ==
    \/ Add
    \/ Start
    \/ StopNoWait
    \/ StopWaitBegin
    \/ StopJoinReturn
    \/ \E w \in Threads : WorkerCheck(w)
    \/ \E w \in Threads : WorkerGet(w)
    \/ \E w \in Threads : WorkerProcess(w)

\* The queue with a download function that may do anything on any call.
InitRQ ==
    /\ InitQueue /\ behaviour = "any"
    /\ DownloaderIdle /\ RepairIdle /\ WaitIdle /\ TrackerIdle
    /\ SniffIdle /\ CorrectIdle /\ ProbeIdle /\ ScanIdle /\ LockIdle
    /\ ProcIdle
SpecRQ == InitRQ /\ [][NextRQ]_vars

\* The queue with the download functions of the two retry-queue scenarios:
\* one that always fails, one that fails once and then succeeds. The
\* scheduler runs every live thread.
InitScenario ==
    /\ InitQueue
    /\ behaviour \in {"always_fail", "fail_once"}
    /\ DownloaderIdle
    /\ RepairIdle
    /\ WaitIdle
    /\ TrackerIdle
    /\ SniffIdle /\ CorrectIdle /\ ProbeIdle /\ ScanIdle /\ LockIdle
    /\ ProcIdle

\* In the scenarios the queue is started, items are added and nobody calls
\* stop().
NextScenario ==
    \/ Add
    \/ Start
    \/ \E w \in Threads : WorkerCheck(w)
    \/ \E w \in Threads : WorkerGet(w)
    \/ \E w \in Threads : WorkerProcess(w)

SpecRQScenario ==
    /\ InitScenario
    /\ [][NextScenario]_vars
    /\ \A w \in Threads : WF_vars(WorkerStep(w))

(***************************************************************************)
(* C1: with max_retries = N >= 1 and a download function that always       *)
(* fails, an item is handed to the download function exactly N times       *)
(* before it is placed in permanently_failed (and get_stats() then         *)
(* reports it as failed, not pending).                                     *)
(***************************************************************************)
C1_ExactlyNAttempts ==
    behaviour = "always_fail" =>
        \A f \in Range(permanently_failed) :
            /\ attempts[f.id] = max_retries
            /\ f.id \notin IdsOf(queue)
            /\ GetStats.failed >= 1

FailOnceCase == behaviour = "fail_once" /\ max_retries >= 3

SameError(its) == [n \in 1..Len(its) |-> [its[n] EXCEPT !.last_error = "e"]]

SameButError(a, b) ==
    /\ SameError(a.queue) = SameError(b.queue)
    /\ SameError(a.permanently_failed) = SameError(b.permanently_failed)
    /\ a.successful_retries = b.successful_retries
    /\ a.ended = b.ended

C12_RaiseIsFalse ==
    /\ [](\A w \in Threads : wpc[w] = "process" =>
            /\ SameButError(Processed(witem[w], "raise"),
                            Processed(witem[w], "false"))
            /\ FailedAgain(witem[w], "raise").retry_count =
                  witem[w].retry_count + 1
            /\ Processed(witem[w], "raise").successful_retries =
                  successful_retries
            /\ Processed(witem[w], "raise").ended \in {"failed", "pending"})
    /\ [](\A w \in Threads : Alive(w) => ENABLED WorkerStep(w))
    /\ [][\A w \in Threads :
            (wpc[w] = "process" /\ wpc'[w] # "process") =>
                /\ wpc'[w] = "loop"
                /\ mainpc' = mainpc
                /\ \E res \in {"ok", "false", "raise"} :
                     /\ queue' = Processed(witem[w], res).queue
                     /\ permanently_failed' =
                           Processed(witem[w], res).permanently_failed
                     /\ successful_retries' =
                           Processed(witem[w], res).successful_retries]_vars

C12_Witness ==
    /\ Len(queue) >= 1
    /\ queue[Len(queue)].last_error = "exception"
    /\ queue[Len(queue)].retry_count = 2
    /\ \E w \in Threads : wpc[w] = "loop"
    /\ permanently_failed = <<>>

(***************************************************************************)
(* C9: at most one worker thread is pulling items from the queue at any    *)
(* time, across any sequence of start(), stop() and add().                 *)
(***************************************************************************)
C9_SingleWorker == Cardinality(AliveThreads) <= 1

(***************************************************************************)
(* C10: once stop() has set the stop event (and until a later start()),    *)
(* every worker makes at most one further download attempt; it is never    *)
(* blocked and each of its steps takes it strictly closer to its exit      *)
(* (Rank decreases), so it exits after at most three more steps; queued    *)
(* items are kept unmodified apart from the one a worker was about to      *)
(* take; and stop() can always return from its join, worker alive or not.  *)
(***************************************************************************)
Rank(pc) == CASE pc = "get" -> 3 [] pc = "process" -> 2
              [] pc = "loop" -> 1 [] OTHER -> 0

QueueKept ==
    \A n \in 1..Len(queue) :
        \/ \E m \in 1..Len(queue') : queue'[m] = queue[n]
        \/ n = 1 /\ \E w \in Threads :
                       wpc[w] = "get" /\ witem'[w] = queue[1]

C10_StopWindsDown ==
    /\ [](stop_event =>
            \A w \in Threads :
                /\ sinceStop[w] <= 1
                /\ Alive(w) => ENABLED WorkerStep(w))
    /\ [](mainpc = "join" => ENABLED StopJoinReturn)
    /\ [][stop_event /\ stop_event' =>
            /\ QueueKept
            /\ \A w \in Threads :
                  wpc'[w] # wpc[w] => Rank(wpc'[w]) < Rank(wpc[w])
            /\ AliveThreads = {} =>
                  UNCHANGED <<permanently_failed, successful_retries>>]_vars

C10_Witness ==
    /\ stop_event
    /\ mainpc = "ready"
    /\ ~is_running
    /\ \E w \in Threads : wpc[w] = "loop" /\ sinceStop[w] = 1
    /\ Len(queue) >= 1

(***************************************************************************)
(* The queue fed by a batch: download_files adds one FailedDownload for    *)
(* each item that failed (downloader.py:472-480), while the caller starts  *)
(* and stops the queue around its batches (processor.py:144, 164).         *)
(***************************************************************************)
AddFailed == AddUpTo(MaxItems)

NextRQBatch ==
    \/ AddFailed
    \/ Start
    \/ StopNoWait
    \/ StopWaitBegin
    \/ StopJoinReturn
    \/ \E w \in Threads : WorkerCheck(w)
    \/ \E w \in Threads : WorkerGet(w)
    \/ \E w \in Threads : WorkerProcess(w)

InitRQBatch ==
    /\ InitQueue /\ behaviour = "any"
    /\ DownloaderIdle /\ RepairIdle /\ WaitIdle /\ TrackerIdle
    /\ SniffIdle /\ CorrectIdle /\ ProbeIdle /\ ScanIdle /\ LockIdle
    /\ ProcIdle

SpecRQBatch == InitRQBatch /\ [][NextRQBatch]_vars

\* The items the workers hold: taken from the queue, not yet put back,
\* counted or listed
Holding == {w \in Threads : wpc[w] = "process"}
Held == {witem[w].id : w \in Holding}

(***************************************************************************)
(* C22: the worker takes the item at the head of the queue; an item that   *)
(* fails under the limit is appended at the tail; and when an item is      *)
(* attempted again, every other item that was in the queue when it last    *)
(* failed has been attempted since.                                        *)
(***************************************************************************)
C22_RoundRobin ==
    /\ [][\A w \in Threads :
            (wpc[w] = "get" /\ wpc'[w] = "process") =>
                (witem'[w] = Head(queue) /\ queue' = Tail(queue))]_vars
    /\ [][\A w \in Threads :
            (wpc[w] = "process" /\ wpc'[w] # "process"
                               /\ outcome'[witem[w].id] = "pending") =>
                /\ Len(queue') = Len(queue) + 1
                /\ SubSeq(queue', 1, Len(queue)) = queue
                /\ queue'[Len(queue')].id = witem[w].id]_vars
    /\ [][\A w \in Threads :
            (wpc[w] = "process" /\ wpc'[w] # "process") =>
                owed[witem[w].id] = {}]_vars

(***************************************************************************)
(* C25: at every moment, the number of add() calls equals the items in     *)
(* the queue plus the item the worker holds (none or one) plus             *)
(* successful_retries plus the size of permanently_failed; no item is      *)
(* lost or present twice or at once in the queue and in                    *)
(* permanently_failed; and an item in permanently_failed is never handed   *)
(* to the download function again.                                         *)
(***************************************************************************)
C25_Conservation ==
    /\ [](/\ Cardinality(Holding) <= 1
          /\ added = Len(queue) + Cardinality(Holding) + successful_retries
                        + Len(permanently_failed)
          /\ Cardinality(IdsOf(queue)) = Len(queue)
          /\ Cardinality(IdsOf(permanently_failed)) =
                 Len(permanently_failed)
          /\ Cardinality(Held) = Cardinality(Holding)
          /\ IdsOf(queue) \cap IdsOf(permanently_failed) = {}
          /\ IdsOf(queue) \cap Held = {}
          /\ IdsOf(permanently_failed) \cap Held = {})
    /\ [][\A i \in IdsOf(permanently_failed) :
             /\ attempts'[i] = attempts[i]
             /\ i \in IdsOf(permanently_failed')]_vars

(***************************************************************************)
(* C30: in every reachable state of the queue, for every max_retries >= 1, *)
(* each item in the queue has 1 <= retry_count < max_retries and each      *)
(* item in permanently_failed has retry_count = max_retries.               *)
(***************************************************************************)
C30_RetryCountBounds ==
    /\ \A it \in Range(queue) :
          1 <= it.retry_count /\ it.retry_count < max_retries
    /\ \A it \in Range(permanently_failed) : it.retry_count = max_retries

(***************************************************************************)
(* MediaDownloader.download_files (downloader.py:204-494)                  *)
(***************************************************************************)
LockPolicies == {"best_effort", "block", "fail"}

\* get_extension_from_url (media.py:31-43) on the model's URLs
UrlExt(u) == IF u % 2 = 1 THEN ".jpg" ELSE ".mp4"

\* media_type_from_extension (media.py:46-67) with image_extensions holding
\* .jpg and video_extensions holding .mp4
MediaType(ext) ==
    CASE ext = ".jpg" -> "Images"
      [] ext = ".mp4" -> "Videos"
      [] OTHER        -> "Other"

\* FileManager.get_output_path (file_manager.py:285-297): the per-type
\* folder of the URL's extension and the URL's file name
OutputPath(u) ==
    [folder |-> MediaType(UrlExt(u)), name |-> u, ext |-> UrlExt(u)]

\* ExtensionHandler.detect_format (extension_handler.py:49-91): the
\* extension the magic bytes give, "none" when the file is missing, empty
\* or of no known signature.
Detections(f, p) ==
    IF p \notin Paths \/ f[p] \in {"absent", "empty"}
    THEN {"none"}
    ELSE Exts \cup {"none"}

\* ExtensionHandler.validate_and_correct_file with apply_rename=True
\* (extension_handler.py:160-218): the path the file has afterwards
CorrectedPath(f, p, det) ==
    IF det = "none" \/ det = p.ext
    THEN p
    ELSE LET new == [p EXCEPT !.ext = det]
         IN IF f[new] # "absent" THEN p ELSE new

\* ... and the files on disk afterwards (file_path.rename(new_path))
CorrectedFs(f, p, det) ==
    LET new == CorrectedPath(f, p, det)
    IN IF new = p THEN f
       ELSE [f EXCEPT ![p] = "absent", ![new] = f[p]]

\* `if out_path.exists(): out_path.unlink()` (downloader.py:450-454, 460-464)
UnlinkSkipped(f, p) == f
Unlink(f, p) == IF p \in Paths THEN [f EXCEPT ![p] = "absent"] ELSE f

\* `if out_path.exists(): ... continue` (downloader.py:250-254)
AlreadyThereNever(f, p) == FALSE
AlreadyThere(f, p) == f[p] # "absent"

\* MediaDownloader.__init__ and the start of the first call
InitDownloader ==
    /\ items \in [1..MaxItems -> {NoUrl} \cup Urls]
    /\ enable_retry_queue \in BOOLEAN
    /\ lock_policy \in LockPolicies
    /\ fs = [p \in Paths |-> "absent"]
    /\ dlpc = "next"
    /\ call = "first"
    /\ idx = 1
    /\ out_path = NoPath
    /\ handle = FALSE
    /\ lock_acquired = FALSE
    /\ successful_downloads = 0
    /\ images_downloaded = 0
    /\ videos_downloaded = 0
    /\ downloaded_extensions = [e \in Exts |-> 0]
    /\ log = NoLogEntry

\* A RetryQueue that is not started (downloader.py:85-97)
QueueIdle ==
    /\ max_retries = MaxMaxRetries
    /\ behaviour = "any"
    /\ queue = <<>>
    /\ permanently_failed = <<>>
    /\ successful_retries = 0
    /\ is_running = FALSE
    /\ stop_event = FALSE
    /\ worker_thread = NoThread
    /\ wpc = [w \in Threads |-> "dead"]
    /\ witem = [w \in Threads |-> NoItem]
    /\ mainpc = "ready"
    /\ added = 0
    /\ attempts = [i \in Ids |-> 0]
    /\ owed = [i \in Ids |-> {}]
    /\ outcome = [i \in Ids |-> "none"]
    /\ sinceStop = [w \in Threads |-> 0]

InitDL ==
    /\ InitDownloader /\ QueueIdle /\ RepairIdle /\ WaitIdle /\ TrackerIdle
    /\ SniffIdle /\ CorrectIdle /\ ProbeIdle /\ ScanIdle /\ LockIdle
    /\ ProcIdle

Logged(field, value) == [log EXCEPT ![field] = value]

\* The loop takes item idx: a fresh entry for it.
LogEntry(u) ==
    [NoLogEntry EXCEPT
       !.call = call, !.idx = idx, !.url = u,
       !.existed = (u # NoUrl /\ fs[OutputPath(u)] # "absent")]

\* f.close() in the finally block, and the end of a `with open(...)`
\* block (downloader.py:289-297, 390-394)
CloseHandleNot(h) == h
CloseHandle(h) == FALSE

\* The loop moves to the next item.
NextItem ==
    /\ idx' = idx + 1
    /\ dlpc' = "next"
    /\ out_path' = NoPath
    /\ handle' = FALSE
    /\ lock_acquired' = FALSE

\* self.downloaded_extensions[ext] = ... + 1 (downloader.py:318-321, 415-418)
CountExtension(p) ==
    downloaded_extensions' =
        [downloaded_extensions EXCEPT ![p.ext] = @ + 1]

\* Lines 420-448 and 483-492: the item is classified and counted.
Succeed(f, p) ==
    /\ fs' = f
    /\ successful_downloads' = successful_downloads + 1
    /\ images_downloaded' =
         images_downloaded + IF MediaType(p.ext) = "Images" THEN 1 ELSE 0
    /\ videos_downloaded' =
         videos_downloaded + IF MediaType(p.ext) = "Videos" THEN 1 ELSE 0
    /\ log' = [log EXCEPT !.counted = TRUE, !.wrote = TRUE, !.done = TRUE,
                           !.path = p, !.file = (f[p] # "absent")]
    /\ NextItem
    /\ UNCHANGED queue

\* `except Exception as e` (downloader.py:459-481): f and p are the files
\* and out_path as the try block left them.
Fail(f, p, err, openedFile) ==
    LET after == Unlink(f, p)
    IN /\ fs' = after
       /\ queue' = IF enable_retry_queue
                   THEN Append(queue,
                               NewFailedDownload(idx, items[idx], p, err))
                   ELSE queue
       /\ log' = [log EXCEPT
                     !.error = err,
                     !.done = TRUE,
                     !.path = p,
                     !.wrote = openedFile,
                     !.enqueued = IF enable_retry_queue THEN @ + 1 ELSE @,
                     !.carried = IF enable_retry_queue THEN err ELSE @,
                     !.file = (p \in Paths /\ after[p] # "absent")]
       /\ NextItem
       /\ UNCHANGED <<successful_downloads, images_downloaded,
                      videos_downloaded>>

\* `except KeyboardInterrupt` (downloader.py:449-458): clean up, re-raise.
Interrupt(f, p, openedFile, h) ==
    LET after == Unlink(f, p)
    IN /\ fs' = after
       /\ dlpc' = "interrupted"
       /\ out_path' = p
       /\ handle' = h
       /\ log' = [log EXCEPT
                     !.error = "interrupt",
                     !.path = p,
                     !.wrote = openedFile,
                     !.file = (p \in Paths /\ after[p] # "absent")]
       /\ UNCHANGED <<queue, idx, lock_acquired, successful_downloads,
                      images_downloaded, videos_downloaded>>

\* Lines 229-254: the url, the output path (get_media_folder makes the
\* per-type folder, outside any try block) and the existence check.
DLBegin ==
    /\ dlpc = "next"
    /\ idx <= Len(items)
    /\ LET u == items[idx]
       IN IF u = NoUrl
          THEN /\ NextItem
               /\ log' = [LogEntry(u) EXCEPT !.done = TRUE]
               /\ UNCHANGED fs
          ELSE \E mkdir \in {"ok", "oserror"} :
                 IF mkdir = "oserror"
                 THEN /\ dlpc' = "raised"
                      /\ UNCHANGED <<idx, out_path, handle, lock_acquired,
                                     log, fs>>
                 ELSE IF AlreadyThere(fs, OutputPath(u))
                      THEN /\ NextItem
                           /\ log' = [LogEntry(u) EXCEPT !.done = TRUE]
                           /\ UNCHANGED fs
                      ELSE /\ out_path' = OutputPath(u)
                           /\ dlpc' = "request"
                           /\ log' = [LogEntry(u) EXCEPT
                                         !.requested = TRUE]
                           /\ UNCHANGED <<idx, handle, lock_acquired, fs>>
    /\ UNCHANGED <<items, enable_retry_queue, lock_policy, call,
                   successful_downloads, images_downloaded,
                   videos_downloaded, downloaded_extensions, queue>>
    /\ UNCHANGED outsideDL

\* request_with_retries and the Content-Length decision
\* (downloader.py:258-280): a body to buffer, a body to stream, an error
\* after the transport-level retries, or Ctrl-C
DLRequest ==
    /\ dlpc = "request"
    /\ \E r \in {"small", "large", "error", "interrupt"} :
         CASE r = "small" ->
                /\ dlpc' = "buffer"
                /\ log' = Logged("requested", TRUE)
                /\ UNCHANGED <<fs, queue, idx, out_path, handle,
                               lock_acquired, successful_downloads,
                               images_downloaded, videos_downloaded>>
           [] r = "large" ->
                /\ dlpc' = "stream_open"
                /\ log' = Logged("requested", TRUE)
                /\ UNCHANGED <<fs, queue, idx, out_path, handle,
                               lock_acquired, successful_downloads,
                               images_downloaded, videos_downloaded>>
           [] r = "error" ->
                Fail(fs, out_path, "network", FALSE)
           [] r = "interrupt" ->
                Interrupt(fs, out_path, FALSE, handle)
    /\ UNCHANGED <<items, enable_retry_queue, lock_policy, call,
                   downloaded_extensions>>
    /\ UNCHANGED outsideDL

\* The buffered path, reading the body into memory (downloader.py:281-284)
DLBuffer ==
    /\ dlpc = "buffer"
    /\ \E r \in {"ok", "error", "interrupt"} :
         CASE r = "ok" ->
                /\ dlpc' = "buf_write"
                /\ UNCHANGED <<fs, queue, idx, out_path, handle, log,
                               lock_acquired, successful_downloads,
                               images_downloaded, videos_downloaded>>
           [] r = "error" ->
                Fail(fs, out_path, "network", FALSE)
           [] r = "interrupt" ->
                Interrupt(fs, out_path, FALSE, handle)
    /\ UNCHANGED <<items, enable_retry_queue, lock_policy, call,
                   downloaded_extensions>>
    /\ UNCHANGED outsideDL

\* The buffered path, writing the file and validating its extension
\* (downloader.py:286-321), then counting it (420-448)
DLBufWrite ==
    /\ dlpc = "buf_write"
    /\ \E r \in {"ok", "open_error", "write_error", "interrupt"} :
         CASE r = "ok" ->
                LET f1 == [fs EXCEPT ![out_path] = "complete"]
                IN \E det \in Detections(f1, out_path) :
                     LET p2 == CorrectedPath(f1, out_path, det)
                         f2 == CorrectedFs(f1, out_path, det)
                     IN /\ CountExtension(p2)
                        /\ Succeed(f2, p2)
           [] r = "open_error" ->
                /\ Fail(fs, out_path, "io", FALSE)
                /\ UNCHANGED downloaded_extensions
           [] r = "write_error" ->
                /\ Fail([fs EXCEPT ![out_path] = "partial"], out_path,
                        "io", TRUE)
                /\ UNCHANGED downloaded_extensions
           [] r = "interrupt" ->
                /\ Interrupt([fs EXCEPT ![out_path] = "partial"], out_path,
                             TRUE, CloseHandle(TRUE))
                /\ UNCHANGED downloaded_extensions
    /\ UNCHANGED <<items, enable_retry_queue, lock_policy, call>>
    /\ UNCHANGED outsideDL

\* What msvcrt.locking / fcntl.flock give: the lock (TRUE), or an OSError
\* that leaves lock_acquired False (downloader.py:329-357)
LockResults == {TRUE, FALSE}

\* The streamed path up to the chunk loop: mkdir, open, lock
\* (downloader.py:323-362). Under the fail policy a lock that was not
\* acquired raises RuntimeError, which runs the finally block (380-418).
DLStreamOpen ==
    /\ dlpc = "stream_open"
    /\ \E r \in {"ok", "open_error"} :
         IF r = "open_error"
         THEN /\ Fail(fs, out_path, "io", FALSE)
              /\ UNCHANGED downloaded_extensions
         ELSE LET f1 == [fs EXCEPT ![out_path] = "empty"]
              IN \E got \in LockResults :
                   IF lock_policy = "fail" /\ ~got
                   THEN \E det \in Detections(f1, out_path) :
                          LET p2 == CorrectedPath(f1, out_path, det)
                              f2 == CorrectedFs(f1, out_path, det)
                          IN /\ CountExtension(p2)
                             /\ Fail(f2, p2, "lock", TRUE)
                   ELSE /\ fs' = f1
                        /\ handle' = TRUE
                        /\ lock_acquired' = got
                        /\ dlpc' = "stream_write"
                        /\ log' = Logged("wrote", TRUE)
                        /\ UNCHANGED <<queue, idx, out_path,
                                       downloaded_extensions,
                                       successful_downloads,
                                       images_downloaded, videos_downloaded>>
    /\ UNCHANGED <<items, enable_retry_queue, lock_policy, call>>
    /\ UNCHANGED outsideDL

\* The chunk loop and the finally block (downloader.py:364-418): whatever
\* ends the loop, the lock is released, the handle closed, the file
\* validated and renamed, and its extension counted; then the item is
\* counted (420-448) or the exception reaches its handler (449-481).
DLStreamWrite ==
    /\ dlpc = "stream_write"
    /\ \E r \in {"ok", "error", "interrupt"}, data \in BOOLEAN :
         LET f1 == [fs EXCEPT ![out_path] =
                       IF r = "ok" THEN "complete"
                       ELSE IF data THEN "partial" ELSE "empty"]
         IN \E det \in Detections(f1, out_path) :
              LET p2 == CorrectedPath(f1, out_path, det)
                  f2 == CorrectedFs(f1, out_path, det)
              IN /\ CountExtension(p2)
                 /\ CASE r = "ok" -> data /\ Succeed(f2, p2)
                      [] r = "error" -> Fail(f2, p2, "network", TRUE)
                      [] r = "interrupt" ->
                           Interrupt(f2, p2, TRUE, CloseHandle(handle))
    /\ UNCHANGED <<items, enable_retry_queue, lock_policy, call>>
    /\ UNCHANGED outsideDL

\* `return (successful_downloads, images_downloaded, videos_downloaded)`
DLReturn ==
    /\ dlpc = "next"
    /\ idx > Len(items)
    /\ dlpc' = "returned"
    /\ UNCHANGED <<items, enable_retry_queue, lock_policy, fs,
                   call, idx, out_path, handle, lock_acquired,
                   successful_downloads, images_downloaded,
                   videos_downloaded, downloaded_extensions, log, queue>>
    /\ UNCHANGED outsideDL

\* The caller calls download_files again with the same items and creator.
DLCallAgain ==
    /\ dlpc = "returned"
    /\ call = "first"
    /\ call' = "second"
    /\ idx' = 1
    /\ dlpc' = "next"
    /\ successful_downloads' = 0
    /\ images_downloaded' = 0
    /\ videos_downloaded' = 0
    /\ UNCHANGED <<items, enable_retry_queue, lock_policy, fs,
                   out_path, handle, lock_acquired, downloaded_extensions,
                   log, queue>>
    /\ UNCHANGED outsideDL

NextDL ==
    \/ DLBegin
    \/ DLRequest
    \/ DLBuffer
    \/ DLBufWrite
    \/ DLStreamOpen
    \/ DLStreamWrite
    \/ DLReturn
    \/ DLCallAgain

SpecDL == InitDL /\ [][NextDL]_vars

(***************************************************************************)
(* C3: in a second download_files call with the same items, an item whose  *)
(* output path exists when the loop reaches it causes no HTTP request and  *)
(* no file write and is not counted as downloaded.                         *)
(***************************************************************************)
C3_SecondCallSkips ==
    (log.call = "second" /\ log.existed) =>
        /\ ~log.requested
        /\ ~log.wrote
        /\ ~log.counted
        /\ log.enqueued = 0
        /\ log.done
        /\ idx > log.idx

C3_Witness ==
    /\ log.call = "second"
    /\ log.existed
    /\ log.done
    /\ fs[OutputPath(log.url)] = "complete"
    /\ successful_downloads = 0
    /\ dlpc = "returned"

(***************************************************************************)
(* C4: when the loop has moved past an item with a non-empty url whose     *)
(* destination did not exist, exactly one of these holds: (a) the file     *)
(* exists in the per-type folder and the item is counted; (b) the retry    *)
(* queue is enabled and exactly one FailedDownload for the item, carrying  *)
(* the triggering error, was appended, with no file left and nothing       *)
(* counted; (c) the retry queue is disabled and the item is neither        *)
(* written nor enqueued nor counted.                                       *)
(***************************************************************************)
OutcomeWritten ==
    /\ log.file
    /\ log.counted
    /\ log.enqueued = 0
    /\ log.error = "none"
    /\ log.path \in Paths
    /\ log.path.folder = MediaType(UrlExt(log.url))
    /\ log.path.name = log.url
    /\ fs[log.path] = "complete"

OutcomeQueued ==
    /\ enable_retry_queue
    /\ log.enqueued = 1
    /\ log.error # "none"
    /\ log.carried = log.error
    /\ Len(queue) >= 1
    /\ queue[Len(queue)].id = log.idx
    /\ queue[Len(queue)].last_error = log.error
    /\ queue[Len(queue)].retry_count = 1
    /\ ~log.file
    /\ ~log.counted

OutcomeSkipped ==
    /\ ~enable_retry_queue
    /\ log.enqueued = 0
    /\ log.error # "none"
    /\ ~log.file
    /\ ~log.counted

C5_BatchSurvivesFailures ==
    /\ dlpc # "raised"
    /\ dlpc = "returned" => idx = Len(items) + 1

EndsInFailure == log'.done /\ ~log.done /\ log'.error # "none"

CorrectionRecorded(entry) ==
    entry.path \in Paths /\ entry.path # OutputPath(entry.url)

C29_FailureLeavesStatistics ==
    [][EndsInFailure =>
          /\ downloaded_extensions' = downloaded_extensions
          /\ successful_downloads' = successful_downloads
          /\ images_downloaded' = images_downloaded
          /\ videos_downloaded' = videos_downloaded
          /\ ~CorrectionRecorded(log')]_vars

(***************************************************************************)
(* RetryQueue.wait_for_completion (retry_queue.py:150-169), called by the  *)
(* foreground thread while the workers run                                 *)
(***************************************************************************)
Timeouts == {NoTimeout} \cup 0..MaxTimeout

\* `start_time = time.time()` (retry_queue.py:159)
WaitBegin ==
    /\ mainpc = "ready"
    /\ wait_result = "none"
    /\ \E timeout \in Timeouts : wait_timeout' = timeout
    /\ wait_elapsed' = 0
    /\ mainpc' = "wait_poll"
    /\ UNCHANGED <<max_retries, queue, permanently_failed,
                   successful_retries, is_running, stop_event,
                   worker_thread, wpc, witem, behaviour, added, attempts, owed,
                   outcome, sinceStop, wait_result>>
    /\ UNCHANGED outsideWait

\* `if len(self._queue) == 0` (retry_queue.py:163)
QueueDrained == queue = <<>> /\ \A w \in Threads : witem[w] = NoItem
QueueEmpty == Len(queue) = 0

\* `with self._lock: if len(self._queue) == 0: return True`
\* (retry_queue.py:162-164)
WaitPoll ==
    /\ mainpc = "wait_poll"
    /\ IF QueueEmpty
       THEN /\ wait_result' = "true"
            /\ mainpc' = "ready"
       ELSE /\ mainpc' = "wait_timeout"
            /\ UNCHANGED wait_result
    /\ UNCHANGED <<max_retries, queue, permanently_failed,
                   successful_retries, is_running, stop_event,
                   worker_thread, wpc, witem, behaviour, added, attempts, owed,
                   outcome, sinceStop, wait_timeout, wait_elapsed>>
    /\ UNCHANGED outsideWait

\* `timeout is not None and (time.time() - start_time) >= timeout`
\* (retry_queue.py:166)
TimedOut == wait_timeout # NoTimeout /\ wait_elapsed >= wait_timeout

\* The timeout test and `time.sleep(0.1)` (retry_queue.py:166-169): the
\* sleep takes one poll interval or more. Without a timeout the elapsed
\* time is never looked at and is left uncounted.
WaitSleep ==
    /\ mainpc = "wait_timeout"
    /\ IF TimedOut
       THEN /\ wait_result' = "false"
            /\ mainpc' = "ready"
            /\ UNCHANGED wait_elapsed
       ELSE /\ mainpc' = "wait_poll"
            /\ \E slept \in 1..2 :
                 wait_elapsed' =
                    IF wait_timeout = NoTimeout THEN wait_elapsed
                    ELSE IF wait_elapsed + slept > wait_timeout
                         THEN wait_timeout
                         ELSE wait_elapsed + slept
            /\ UNCHANGED wait_result
    /\ UNCHANGED <<max_retries, queue, permanently_failed,
                   successful_retries, is_running, stop_event,
                   worker_thread, wpc, witem, behaviour, added, attempts, owed,
                   outcome, sinceStop, wait_timeout>>
    /\ UNCHANGED outsideWait

WaitStep == WaitPoll \/ WaitSleep

NextRQWait ==
    \/ Add
    \/ Start
    \/ \E w \in Threads : WorkerCheck(w)
    \/ \E w \in Threads : WorkerGet(w)
    \/ \E w \in Threads : WorkerProcess(w)
    \/ WaitBegin
    \/ WaitPoll
    \/ WaitSleep

InitRQWait ==
    /\ InitQueue /\ behaviour = "any"
    /\ DownloaderIdle /\ RepairIdle /\ WaitIdle /\ TrackerIdle
    /\ SniffIdle /\ CorrectIdle /\ ProbeIdle /\ ScanIdle /\ LockIdle
    /\ ProcIdle

\* The foreground thread is scheduled: a call in progress takes its steps.
SpecRQWait == InitRQWait /\ [][NextRQWait]_vars /\ WF_vars(WaitStep)

(***************************************************************************)
(* C11: wait_for_completion with a finite timeout always returns and       *)
(* never raises; a poll that finds the queue empty returns True at once,   *)
(* even while a worker holds a dequeued item; False is returned only when  *)
(* the timeout has elapsed and every poll found the queue non-empty; the   *)
(* call never changes the queue or the counters.                           *)
(***************************************************************************)
InWait == mainpc \in {"wait_poll", "wait_timeout"}

C11_WaitReturns ==
    /\ [][WaitStep =>
            /\ UNCHANGED <<queue, permanently_failed, successful_retries,
                           is_running, stop_event, wpc, witem>>
            /\ (mainpc = "wait_poll" /\ Len(queue) = 0)
                  => (wait_result' = "true" /\ mainpc' = "ready")
            /\ wait_result' = "false"
                  => /\ wait_elapsed >= wait_timeout
                     /\ wait_timeout # NoTimeout
                     /\ mainpc = "wait_timeout"
            /\ wait_result' = "true" => Len(queue) = 0]_vars
    /\ [](InWait => ENABLED WaitStep)
    /\ [](wait_result # "none" => mainpc = "ready")
    /\ (InWait /\ wait_timeout # NoTimeout) ~> (wait_result # "none")

C11_Witness ==
    /\ wait_result = "true"
    /\ wait_timeout # NoTimeout
    /\ \E w \in Threads : witem[w] # NoItem /\ wpc[w] = "process"
    /\ queue = <<>>

(***************************************************************************)
(* ExtensionCorrectionTracker (core/extension_tracker.py), shared by the   *)
(* foreground download thread (downloader.py:308-313, 405-410) and the     *)
(* retry worker (downloader.py:146-151)                                    *)
(***************************************************************************)
\* `path_str = str(file_path)` and the tuple are built in the calling
\* thread (extension_tracker.py:62-63)
RecordBegin(t) ==
    /\ tpc[t] = "idle"
    /\ tcalls[t] < MaxRecords
    /\ \E path \in TrackerPaths, pair \in ExtPairs :
         targs' = [targs EXCEPT ![t] = [path |-> path, pair |-> pair]]
    /\ tpc' = [tpc EXCEPT ![t] = "store"]
    /\ UNCHANGED <<corrections, tcalls, twritten>>
    /\ UNCHANGED outsideTracker

\* `self._corrections[path_str] = (old_extension, new_extension)`
\* (extension_tracker.py:63): one dict item assignment, which the
\* interpreter carries out as a whole
StoreAlone(c, path, pair) ==
    [p \in TrackerPaths |-> IF p = path THEN pair ELSE NoCorrection]
Store(c, path, pair) == [c EXCEPT ![path] = pair]

RecordStore(t) ==
    /\ tpc[t] = "store"
    /\ corrections' = Store(corrections, targs[t].path, targs[t].pair)
    /\ twritten' = [twritten EXCEPT ![targs[t].path] = @ \cup {targs[t].pair}]
    /\ tcalls' = [tcalls EXCEPT ![t] = @ + 1]
    /\ tpc' = [tpc EXCEPT ![t] = "idle"]
    /\ targs' = [targs EXCEPT ![t] = NoRecordCall]
    /\ UNCHANGED outsideTracker

\* ExtensionCorrectionTracker.get_correction (extension_tracker.py:84-93)
GetCorrection(path) == corrections[path]

NextTracker ==
    \/ \E t \in TrackerThreads : RecordBegin(t)
    \/ \E t \in TrackerThreads : RecordStore(t)

InitTracker ==
    /\ TrackerIdle
    /\ QueueIdle /\ DownloaderIdle /\ RepairIdle /\ WaitIdle /\ SniffIdle
    /\ CorrectIdle /\ ProbeIdle /\ ScanIdle /\ LockIdle
    /\ ProcIdle

SpecTracker == InitTracker /\ [][NextTracker]_vars

(***************************************************************************)
(* C13: when the foreground thread and the retry worker call record() on   *)
(* the shared tracker concurrently, no update is lost: every path a        *)
(* completed call recorded has an entry, the entry of a path is one of     *)
(* the (old, new) pairs written for it, never a missing or mixed pair,     *)
(* and each store leaves in place exactly the pair of the call that made   *)
(* it (last write wins).                                                   *)
(***************************************************************************)
C13_NoLostUpdate ==
    /\ [](\A p \in TrackerPaths :
            /\ twritten[p] # {} => GetCorrection(p) \in twritten[p]
            /\ twritten[p] = {} => GetCorrection(p) = NoCorrection)
    /\ [][\A t \in TrackerThreads :
            (tpc[t] = "store" /\ tpc'[t] = "idle") =>
                /\ corrections'[targs[t].path] = targs[t].pair
                /\ \A p \in TrackerPaths \ {targs[t].path} :
                     corrections'[p] = corrections[p]]_vars

C13_Witness ==
    /\ \A t \in TrackerThreads : tpc[t] = "idle" /\ tcalls[t] >= 1
    /\ Cardinality(twritten["a.jpg"]) = 2
    /\ twritten["b.jpg"] # {}
    /\ GetCorrection("a.jpg") \in twritten["a.jpg"]

(***************************************************************************)
(* ExtensionHandler.detect_format (utilities/extension_handler.py:20-91).  *)
(* Bytes are numbers 0..255, a file is the sequence of its bytes.          *)
(***************************************************************************)
\* SIGNATURES, in the declared order (extension_handler.py:20-38)
SIGNATURES == <<
    [magic |-> <<255, 216, 255>>,
     result |-> <<"image", "JPEG", ".jpg">>],
    [magic |-> <<137, 80, 78, 71, 13, 10, 26, 10>>,
     result |-> <<"image", "PNG", ".png">>],
    [magic |-> <<71, 73, 70, 56, 55, 97>>,
     result |-> <<"image", "GIF", ".gif">>],
    [magic |-> <<71, 73, 70, 56, 57, 97>>,
     result |-> <<"image", "GIF", ".gif">>],
    [magic |-> <<66, 77>>,
     result |-> <<"image", "BMP", ".bmp">>],
    [magic |-> <<73, 73, 42, 0>>,
     result |-> <<"image", "TIFF", ".tiff">>],
    [magic |-> <<77, 77, 0, 42>>,
     result |-> <<"image", "TIFF", ".tiff">>],
    [magic |-> <<0, 0, 1, 0>>,
     result |-> <<"image", "ICO", ".ico">>],
    [magic |-> <<255, 251>>,
     result |-> <<"audio", "MP3", ".mp3">>],
    [magic |-> <<73, 68, 51>>,
     result |-> <<"audio", "MP3", ".mp3">>],
    [magic |-> <<26, 69, 223, 163>>,
     result |-> <<"video", "WebM/MKV", ".webm">>],
    [magic |-> <<102, 116, 121, 112, 105, 115, 111, 109>>,
     result |-> <<"video", "MP4", ".mp4">>],
    [magic |-> <<102, 116, 121, 112, 109, 112, 52, 50>>,
     result |-> <<"video", "MP4", ".mp4">>],
    [magic |-> <<102, 116, 121, 112, 113, 116, 0>>,
     result |-> <<"video", "MOV", ".mov">>],
    [magic |-> <<102, 108, 97, 99>>,
     result |-> <<"audio", "FLAC", ".flac">>],
    [magic |-> <<79, 103, 103, 83>>,
     result |-> <<"audio", "OGG", ".ogg">>],
    [magic |-> <<0, 0, 0, 32, 102, 116, 121, 112, 104, 101, 105, 99>>,
     result |-> <<"image", "HEIC", ".heic">>] >>

\* RIFF_SIGNATURES (extension_handler.py:41-45)
RIFF_SIGNATURES == {
    [magic |-> <<87, 65, 86, 69>>, result |-> <<"audio", "WAV", ".wav">>],
    [magic |-> <<65, 86, 73, 32>>, result |-> <<"video", "AVI", ".avi">>],
    [magic |-> <<87, 69, 66, 80>>, result |-> <<"image", "WebP", ".webp">>] }

\* b'RIFF', b'ftyp', b'isom', b'mp4', b'qt', b'heic'
RIFF == <<82, 73, 70, 70>>
Ftyp == <<102, 116, 121, 112>>
Isom == <<105, 115, 111, 109>>
Mp4 == <<109, 112, 52>>
Qt == <<113, 116>>
Heic == <<104, 101, 105, 99>>

\* `f.read(512)` (extension_handler.py:65)
ReadLimit == 512
Read(file) == SubSeq(file, 1, IF Len(file) < ReadLimit THEN Len(file)
                                                      ELSE ReadLimit)

\* bytes.startswith and the slice b[from:to]
StartsWith(b, prefix) ==
    Len(b) >= Len(prefix) /\ SubSeq(b, 1, Len(prefix)) = prefix
Slice(b, from, to) == SubSeq(b, from + 1, IF to < Len(b) THEN to ELSE Len(b))

\* The first entry of SIGNATURES the header starts with, from entry n on
\* (extension_handler.py:84-86)
RECURSIVE TableMatch(_, _)
TableMatch(header, n) ==
    IF n > Len(SIGNATURES) THEN NoFormat
    ELSE IF StartsWith(header, SIGNATURES[n].magic)
         THEN SIGNATURES[n].result
         ELSE TableMatch(header, n + 1)

\* The ISO-BMFF brand test (extension_handler.py:76-82)
FtypMatch(header) ==
    LET ftyp_code == Slice(header, 8, 12)
    IN IF StartsWith(ftyp_code, Isom) \/ StartsWith(ftyp_code, Mp4)
       THEN <<"video", "MP4", ".mp4">>
       ELSE IF StartsWith(ftyp_code, Qt) THEN <<"video", "MOV", ".mov">>
       ELSE IF StartsWith(ftyp_code, Heic) THEN <<"image", "HEIC", ".heic">>
       ELSE NoFormat

\* The RIFF subtype test (extension_handler.py:70-73)
RiffMatch(header) ==
    LET riff_type == Slice(header, 8, 12)
    IN IF \E e \in RIFF_SIGNATURES : e.magic = riff_type
       THEN (CHOOSE e \in RIFF_SIGNATURES : e.magic = riff_type).result
       ELSE NoFormat

\* `len(header) > 8 and header[4:8] == b'ftyp'` (extension_handler.py:75)
IsFtypBoxNever(header) == FALSE
IsFtypBox(header) == Len(header) > 8 /\ Slice(header, 4, 8) = Ftyp

\* detect_format on an existing, readable file (extension_handler.py:64-88)
DetectFormat(file) ==
    LET header == Read(file)
    IN IF header = <<>> THEN NoFormat
       ELSE IF /\ StartsWith(header, RIFF) /\ Len(header) > 12
               /\ RiffMatch(header) # NoFormat
            THEN RiffMatch(header)
       ELSE IF IsFtypBox(header) /\ FtypMatch(header) # NoFormat
            THEN FtypMatch(header)
       ELSE TableMatch(header, 1)

\* The byte groups appended to a magic prefix, and their concatenation
Chunks == {<<0>>, <<0, 0>>, Ftyp, Qt, Isom, <<87, 69, 66, 80>>}
Trails == UNION {[1..n -> Chunks] : n \in 0..MaxChunks}
RECURSIVE Concat(_)
Concat(chunks) ==
    IF chunks = <<>> THEN <<>> ELSE Head(chunks) \o Concat(Tail(chunks))

InitSniffFile ==
    /\ sniff_sig \in 1..Len(SIGNATURES)
    /\ sniff_trail \in {Concat(t) : t \in Trails}
    /\ sniff_pc = "minimal"
    /\ sniff_minimal = NoFormat
    /\ sniff_appended = NoFormat

\* detect_format of the file that is exactly the magic prefix
SniffMinimal ==
    /\ sniff_pc = "minimal"
    /\ sniff_minimal' = DetectFormat(SIGNATURES[sniff_sig].magic)
    /\ sniff_pc' = "appended"
    /\ UNCHANGED <<sniff_sig, sniff_trail, sniff_appended>>
    /\ UNCHANGED outsideSniff

\* detect_format of the file with the bytes appended
SniffAppended ==
    /\ sniff_pc = "appended"
    /\ sniff_appended' =
          DetectFormat(SIGNATURES[sniff_sig].magic \o sniff_trail)
    /\ sniff_pc' = "done"
    /\ UNCHANGED <<sniff_sig, sniff_trail, sniff_minimal>>
    /\ UNCHANGED outsideSniff

NextSniff == SniffMinimal \/ SniffAppended

InitSniff ==
    /\ InitSniffFile
    /\ QueueIdle /\ DownloaderIdle /\ RepairIdle /\ WaitIdle /\ TrackerIdle
    /\ CorrectIdle /\ ProbeIdle /\ ScanIdle /\ LockIdle
    /\ ProcIdle

SpecSniff == InitSniff /\ [][NextSniff]_vars

(***************************************************************************)
(* C15: for every signature of the table, the file that is exactly the     *)
(* magic prefix is detected as the entry's (kind, format, extension), and  *)
(* so is the file with any bytes appended to the prefix.                   *)
(***************************************************************************)
C15_TrailingBytesIgnored ==
    /\ sniff_pc \in {"appended", "done"} =>
          sniff_minimal = SIGNATURES[sniff_sig].result
    /\ sniff_pc = "done" => sniff_appended = sniff_minimal

(***************************************************************************)
(* C15, amended: the file that is exactly the magic prefix is detected as  *)
(* the entry's (kind, format, extension); the file with bytes appended is  *)
(* detected the same unless it is longer than 8 bytes and the appended     *)
(* bytes put 'ftyp' at offsets 4-7 followed by a brand that starts with    *)
(* isom, mp4, qt or heic, in which case the brand decides.                 *)
(***************************************************************************)
BrandDecides(file) ==
    /\ Len(file) > 8
    /\ Slice(file, 4, 8) = Ftyp
    /\ \E brand \in {Isom, Mp4, Qt, Heic} :
         StartsWith(Slice(file, 8, 12), brand)

C15_PrefixDetected ==
    /\ sniff_pc \in {"appended", "done"} =>
          sniff_minimal = SIGNATURES[sniff_sig].result
    /\ sniff_pc = "done" =>
          IF BrandDecides(SIGNATURES[sniff_sig].magic \o sniff_trail)
          THEN sniff_appended =
                  FtypMatch(SIGNATURES[sniff_sig].magic \o sniff_trail)
          ELSE sniff_appended = sniff_minimal

C15_Witness ==
    /\ sniff_pc = "done"
    /\ sniff_trail # <<>>
    /\ Len(SIGNATURES[sniff_sig].magic) < 8
    /\ Slice(SIGNATURES[sniff_sig].magic \o sniff_trail, 4, 8) = Ftyp
    /\ ~BrandDecides(SIGNATURES[sniff_sig].magic \o sniff_trail)
    /\ sniff_appended = SIGNATURES[sniff_sig].result

(***************************************************************************)
(* ExtensionHandler.get_correct_extension and validate_and_correct_file    *)
(* (utilities/extension_handler.py:107-218), called after a download       *)
(* (core/downloader.py:301-316) and by the folder scan with                *)
(* apply_corrections (utilities/video_validator.py:305-320).  One folder,  *)
(* one file stem; a path is its stem and suffix.                           *)
(***************************************************************************)
Suffixes == {".jpg", ".JPG", ".jpeg", ".png", ".mp4"}
FolderPaths == [stem : {"a"}, suffix : Suffixes]

\* str(path), Path.suffix.lower(), Path.with_suffix(ext)
Str(path) == path.stem \o path.suffix
Lower(suffix) == IF suffix = ".JPG" THEN ".jpg" ELSE suffix
WithSuffix(path, ext) == [path EXCEPT !.suffix = ext]

\* What a file can hold: a JPEG, an MP4, bytes of no known format
Contents == {
    <<255, 216, 255, 224>>,
    <<0, 0, 0, 24>> \o Ftyp \o Isom \o <<0>>,
    <<1, 2, 3>> }
Absent == [exists |-> FALSE, bytes |-> <<>>]
File(bytes) == [exists |-> TRUE, bytes |-> bytes]

\* Path.exists(), and detect_format of a path: None when the file is not
\* there (extension_handler.py:59-61)
Exists(folder, path) == folder[path].exists
Detect(folder, path) ==
    IF Exists(folder, path) THEN DetectFormat(folder[path].bytes) ELSE NoFormat

\* format_variants (extension_handler.py:146-151)
FormatVariants(format_name) ==
    CASE format_name = "JPEG" -> <<".jpg", ".jpeg">>
      [] format_name = "TIFF" -> <<".tiff", ".tif">>
      [] format_name = "MP3" -> <<".mp3">>
      [] format_name = "OGG" -> <<".ogg", ".oga", ".ogv">>
      [] OTHER -> <<>>

\* The first variant among the configured extensions, "none" if there is
\* none (extension_handler.py:153-158)
RECURSIVE FirstConfigured(_, _)
FirstConfigured(variants, all_extensions) ==
    IF variants = <<>> THEN "none"
    ELSE IF Head(variants) \in all_extensions THEN Head(variants)
    ELSE FirstConfigured(Tail(variants), all_extensions)

\* get_correct_extension (extension_handler.py:107-158); "none" is None
GetCorrectExtension(folder, path, image_extensions, video_extensions, audio_extensions) ==
    LET detection == Detect(folder, path)
        all_extensions ==
            image_extensions \cup video_extensions \cup audio_extensions
    IN IF detection = NoFormat THEN "none"
       ELSE IF detection[3] \in all_extensions THEN detection[3]
       ELSE FirstConfigured(FormatVariants(detection[2]), all_extensions)

\* `new_path.exists() and new_path != file_path`
\* (extension_handler.py:211)
RenameRefusedNever(folder, file_path, new_path) == FALSE
RenameRefused(folder, file_path, new_path) ==
    Exists(folder, new_path) /\ new_path # file_path

\* Path.rename: the file is now at new_path, replacing what was there
Rename(folder, file_path, new_path) ==
    [folder EXCEPT ![file_path] = Absent, ![new_path] = folder[file_path]]

\* validate_and_correct_file (extension_handler.py:160-218): the returned
\* path, the folder afterwards and whether the rename raised OSError, which
\* is caught (extension_handler.py:217-218); rename_ok is the OS's answer
ValidateAndCorrectFile(folder, file_path, image_extensions, video_extensions, audio_extensions, apply_rename, rename_ok) ==
    LET detection == Detect(folder, file_path)
        current_ext == Lower(file_path.suffix)
        correct_ext == GetCorrectExtension(folder, file_path, image_extensions,
                                           video_extensions, audio_extensions)
        new_path == WithSuffix(file_path, correct_ext)
        unchanged == [path |-> file_path, folder |-> folder,
                      os_error |-> FALSE]
    IN IF detection = NoFormat THEN unchanged
       ELSE IF current_ext = detection[3] THEN unchanged
       ELSE IF correct_ext = "none" \/ current_ext = correct_ext
            THEN unchanged
       ELSE IF ~apply_rename THEN unchanged
       ELSE IF RenameRefused(folder, file_path, new_path) THEN unchanged
       ELSE IF ~rename_ok
            THEN [path |-> file_path, folder |-> folder, os_error |-> TRUE]
       ELSE [path |-> new_path, folder |-> Rename(folder, file_path, new_path),
             os_error |-> FALSE]

\* The caller's bookkeeping (downloader.py:308-314,
\* video_validator.py:313-318): a changed path is recorded under the path
\* that was passed, with both suffixes lowered
Recorded(c, path, corrected_path) ==
    IF corrected_path # path
    THEN Store(c, Str(path),
               <<Lower(path.suffix), Lower(corrected_path.suffix)>>)
    ELSE c

\* The configured extension lists (configuration file)
Configs == {
    [image |-> {".jpg", ".jpeg", ".png"}, video |-> {".mp4"}],
    [image |-> {".jpeg", ".png"}, video |-> {}] }

InitFolder ==
    /\ disk = [p \in FolderPaths |-> Absent]
    /\ config \in Configs
    /\ cpc = "ready"
    /\ out_file = NoFile
    /\ last_call = NoCall
    /\ corrections = [p \in {Str(q) : q \in FolderPaths} |-> NoCorrection]
    /\ tpc = [t \in TrackerThreads |-> "idle"]
    /\ targs = [t \in TrackerThreads |-> NoRecordCall]
    /\ tcalls = [t \in TrackerThreads |-> 0]
    /\ twritten = [p \in TrackerPaths |-> {}]

\* download_files writes the response to out_path, which did not exist
\* (downloader.py:241-243, 262-299)
WriteDownloaded(path, bytes) ==
    /\ cpc = "ready"
    /\ ~Exists(disk, path)
    /\ disk' = [disk EXCEPT ![path] = File(bytes)]
    /\ out_file' = path
    /\ cpc' = "written"
    /\ UNCHANGED <<config, last_call, corrections>>
    /\ UNCHANGED outsideCorrect

\* download_files corrects the file it wrote (downloader.py:301-316)
CorrectDownloaded ==
    /\ cpc = "written"
    /\ \E rename_ok \in BOOLEAN :
         LET r == ValidateAndCorrectFile(disk, out_file, config.image,
                                         config.video, {}, TRUE, rename_ok)
         IN /\ disk' = r.folder
            /\ corrections' = Recorded(corrections, out_file, r.path)
            /\ last_call' = [kind |-> "download", path |-> out_file,
                             returned |-> r.path, os_error |-> r.os_error]
    /\ cpc' = "ready"
    /\ out_file' = NoFile
    /\ UNCHANGED config
    /\ UNCHANGED outsideCorrect

\* The folder scan corrects a file it finds (video_validator.py:305-320)
CorrectScanned(path) ==
    /\ cpc = "ready"
    /\ Exists(disk, path)
    /\ \E rename_ok \in BOOLEAN :
         LET r == ValidateAndCorrectFile(disk, path, config.image,
                                         config.video, {}, TRUE, rename_ok)
         IN /\ disk' = r.folder
            /\ corrections' = Recorded(corrections, path, r.path)
            /\ last_call' = [kind |-> "scan", path |-> path,
                             returned |-> r.path, os_error |-> r.os_error]
    /\ UNCHANGED <<config, cpc, out_file>>
    /\ UNCHANGED outsideCorrect

NextCorrect ==
    \/ \E path \in FolderPaths, bytes \in Contents : WriteDownloaded(path, bytes)
    \/ CorrectDownloaded
    \/ \E path \in FolderPaths : CorrectScanned(path)

InitCorrect ==
    /\ InitFolder
    /\ QueueIdle /\ DownloaderIdle /\ RepairIdle /\ WaitIdle /\ SniffIdle
    /\ ProbeIdle /\ ScanIdle /\ LockIdle
    /\ ProcIdle

SpecCorrect == InitCorrect /\ [][NextCorrect]_vars

\* The file at path holds format X under a suffix of another format Y,
\* with Y's suffix and X's canonical extension both configured
Mislabelled(path) ==
    /\ Exists(disk, path)
    /\ Detect(disk, path) # NoFormat
    /\ Lower(path.suffix) # Detect(disk, path)[3]
    /\ Lower(path.suffix) \notin {".jpg", ".jpeg"}
          \/ Detect(disk, path)[2] # "JPEG"
    /\ {Lower(path.suffix), Detect(disk, path)[3]}
          \subseteq config.image \cup config.video

\* The corrected name of a mislabelled file
Canonical(path) == WithSuffix(path, Detect(disk, path)[3])

\* The file was renamed to its format's canonical extension and the
\* tracker holds (Y, X) under the path that was passed
RenamedAndTracked(path) ==
    /\ disk'[path] = Absent
    /\ disk'[Canonical(path)] = disk[path]
    /\ \A q \in FolderPaths \ {path, Canonical(path)} : disk'[q] = disk[q]
    /\ last_call'.returned = Canonical(path)
    /\ corrections'[Str(path)] =
          <<Lower(path.suffix), Detect(disk, path)[3]>>

\* The second application to the renamed file changes nothing
AgainChangesNothing ==
    \A p \in FolderPaths :
        (/\ last_call.kind = "download"
         /\ last_call.returned # last_call.path
         /\ p = last_call.returned
         /\ CorrectScanned(p))
        => /\ UNCHANGED <<disk, corrections>>
           /\ last_call'.returned = p

(***************************************************************************)
(* C14: the download-time call on a file whose bytes are format X under a  *)
(* suffix of format Y (both configured) renames it to X's canonical        *)
(* extension, get_correction of the path passed is then (Y, X), and        *)
(* applying the call again to the renamed file changes nothing.  A rename  *)
(* the operating system rejects is left aside.                             *)
(***************************************************************************)
C14_RenamesAndRecords ==
    [][/\ (CorrectDownloaded /\ Mislabelled(out_file)
             /\ ~last_call'.os_error)
            => RenamedAndTracked(out_file)
       /\ AgainChangesNothing]_vars

(***************************************************************************)
(* C14, amended: the same, provided no other file exists at the corrected  *)
(* name and the operating system carries out the rename; otherwise the     *)
(* file keeps its name, the path passed is returned and the tracker is not *)
(* written.                                                                *)
(***************************************************************************)
C14_RenamesUnlessTaken ==
    [][/\ (/\ CorrectDownloaded
           /\ Mislabelled(out_file)
           /\ ~Exists(disk, Canonical(out_file))
           /\ ~last_call'.os_error)
            => RenamedAndTracked(out_file)
       /\ (/\ CorrectDownloaded
           /\ Mislabelled(out_file)
           /\ Exists(disk, Canonical(out_file)) \/ last_call'.os_error)
            => /\ UNCHANGED <<disk, corrections>>
               /\ last_call'.returned = out_file
       /\ AgainChangesNothing]_vars

C14_Witness ==
    /\ last_call.kind = "scan"
    /\ last_call.path = [stem |-> "a", suffix |-> ".mp4"]
    /\ last_call.returned = last_call.path
    /\ GetCorrection("a.JPG") = <<".jpg", ".mp4">>
    /\ ~Exists(disk, [stem |-> "a", suffix |-> ".JPG"])
    /\ DetectFormat(disk[last_call.path].bytes) = <<"video", "MP4", ".mp4">>

(***************************************************************************)
(* VideoValidator.get_video_info and validate_video                        *)
(* (utilities/video_validator.py:43-224).  Durations are whole seconds.    *)
(***************************************************************************)
\* IMAGE_CODECS (video_validator.py:17)
IMAGE_CODECS == {"webp", "png", "jpeg", "mjpeg", "gif", "bmp"}

\* The ways subprocess.run and json.loads end short of a stream object
\* (video_validator.py:56-90, 150-151); os_error is an OSError other than
\* FileNotFoundError, such as PermissionError for a probe that cannot be
\* executed
ProbeFailures ==
    {"nonzero_exit", "timeout", "not_found", "os_error", "bad_json",
     "not_object", "no_streams", "stream_not_object"}

\* The fields of streams[0].  A duration or nb_frames is absent, a JSON
\* number, a numeric string, a string that is no number, or another type.
CodecNames ==
    {"absent", "vp9", "VP9", "h264"} \cup IMAGE_CODECS
DurationValues ==
    {[kind |-> k, n |-> 0] : k \in {"absent", "bad_string", "other"}}
    \cup [kind : {"number", "string"}, n : -1..MaxDuration]
FrameValues ==
    {[kind |-> k, n |-> 0] : k \in {"absent", "bad_string", "other"}}
    \cup [kind : {"number", "string"}, n : -1..MaxFrames]
RateValues ==
    {[kind |-> k, num |-> 0, den |-> 0] :
        k \in {"absent", "not_string", "bad_fraction", "bad_plain"}}
    \cup [kind : {"fraction"}, num : 0..MaxRate, den : 0..MaxRate]
    \cup [kind : {"plain"}, num : 0..MaxRate, den : {1}]
ProbeOutcomes ==
    {[NoProbe EXCEPT !.run = f] : f \in ProbeFailures}
    \cup [run : {"ok"}, codec_name : CodecNames, duration : DurationValues,
          nb_frames : FrameValues, r_frame_rate : RateValues]

\* `str(codec_name_raw).lower()` with the default "unknown"
\* (video_validator.py:92-93)
CodecName(raw) ==
    IF raw = "absent" THEN "unknown" ELSE IF raw = "VP9" THEN "vp9" ELSE raw

\* The results of get_video_info: a tuple, None, or an exception that
\* leaves the function
Info(frames, duration, codec_name) ==
    [kind |-> "info", frames |-> frames, duration |-> duration,
     codec |-> codec_name]
NoInfo == [kind |-> "none", frames |-> 0, duration |-> 0, codec |-> "none"]
InfoRaised ==
    [kind |-> "raised", frames |-> 0, duration |-> 0, codec |-> "none"]

\* `except (subprocess.TimeoutExpired, json.JSONDecodeError,
\* FileNotFoundError)` (video_validator.py:150-151)
Caught(run) == run # "os_error"

\* fps and the estimate `int(duration * fps) if fps > 0 else 0`
\* (video_validator.py:126-146); the numbers are not negative here, so int()
\* rounds down
EstimatedFrames(duration, rate) ==
    IF rate.kind \in {"fraction", "plain"} /\ rate.num > 0 /\ rate.den > 0
       /\ duration >= 0
    THEN (duration * rate.num) \div rate.den
    ELSE IF rate.kind \in {"fraction", "plain"} /\ rate.num > 0
            /\ rate.den > 0
    THEN 0 - ((0 - duration) * rate.num) \div rate.den
    ELSE 0

\* get_video_info (video_validator.py:43-151)
GetVideoInfo(o) ==
    LET codec_name == CodecName(o.codec_name)
        vp9_or_none == IF codec_name = "vp9" THEN Info(0, 0, codec_name)
                                             ELSE NoInfo
    IN IF o.run # "ok" THEN (IF Caught(o.run) THEN NoInfo ELSE InfoRaised)
       ELSE IF o.duration.kind \in {"absent", "bad_string", "other"}
            THEN vp9_or_none
       ELSE IF o.nb_frames.kind \in {"number", "string"}
            THEN Info(o.nb_frames.n, o.duration.n, codec_name)
       ELSE Info(EstimatedFrames(o.duration.n, o.r_frame_rate),
                 o.duration.n, codec_name)

\* validate_video (video_validator.py:185-224)
Verdict(valid, frames, duration) ==
    [kind |-> "returned", valid |-> valid, frames |-> frames,
     duration |-> duration]
VerdictRaised ==
    [kind |-> "raised", valid |-> FALSE, frames |-> 0, duration |-> 0]

ValidateVideo(o) ==
    LET info == GetVideoInfo(o)
    IN IF info.kind = "raised" THEN VerdictRaised
       ELSE IF info.kind = "none" THEN Verdict(FALSE, 0, 0)
       ELSE IF info.codec \in IMAGE_CODECS
            THEN Verdict(FALSE, info.frames, info.duration)
       ELSE IF info.codec = "vp9"
            THEN Verdict(TRUE, info.frames, info.duration)
       ELSE IF info.duration <= 0
            THEN Verdict(FALSE, info.frames, info.duration)
       ELSE IF info.frames <= 1
            THEN Verdict(FALSE, info.frames, info.duration)
       ELSE Verdict(TRUE, info.frames, info.duration)

\* subprocess.run ends (video_validator.py:56-72)
RunProbe ==
    /\ vpc = "ready"
    /\ probe_out' \in ProbeOutcomes
    /\ vpc' = "probed"
    /\ UNCHANGED vresult
    /\ UNCHANGED outsideProbe

\* The rest of validate_video
Decide ==
    /\ vpc = "probed"
    /\ vresult' = ValidateVideo(probe_out)
    /\ vpc' = "done"
    /\ UNCHANGED probe_out
    /\ UNCHANGED outsideProbe

NextProbe == RunProbe \/ Decide

InitValidator ==
    /\ vpc = "ready"
    /\ probe_out = NoProbe
    /\ vresult = NoVerdict

InitProbe ==
    /\ InitValidator
    /\ QueueIdle /\ DownloaderIdle /\ RepairIdle /\ WaitIdle /\ TrackerIdle
    /\ SniffIdle /\ CorrectIdle /\ ScanIdle /\ LockIdle
    /\ ProcIdle

SpecProbe == InitProbe /\ [][NextProbe]_vars

\* The policy's verdict for the returned frames and duration
DurationReported == probe_out.duration.kind \in {"number", "string"}
PolicyValid ==
    IF ~DurationReported THEN CodecName(probe_out.codec_name) = "vp9"
    ELSE IF CodecName(probe_out.codec_name) \in
               {"webp", "png", "jpeg", "mjpeg", "gif", "bmp"} THEN FALSE
    ELSE IF CodecName(probe_out.codec_name) = "vp9" THEN TRUE
    ELSE IF vresult.duration <= 0 THEN FALSE
    ELSE IF vresult.frames <= 1 THEN FALSE
    ELSE TRUE

(***************************************************************************)
(* C16: validate_video returns a verdict for every probe outcome; a probe  *)
(* that failed, timed out, gave unparseable output or no stream is invalid *)
(* with frames 0 and duration 0; an unreported duration is valid (0, 0)    *)
(* for vp9 only; otherwise image codecs are invalid, vp9 is valid,         *)
(* duration <= 0 is invalid, frames <= 1 is invalid and the rest is valid; *)
(* (5, 1) is invalid, (5, 2) valid, (0, vp9) valid, (0, h264) invalid.     *)
(***************************************************************************)
C16_OrderedPolicy ==
    vpc = "done" =>
       /\ vresult.kind = "returned"
       /\ probe_out.run # "ok" => vresult = Verdict(FALSE, 0, 0)
       /\ probe_out.run = "ok" =>
            /\ vresult.valid = PolicyValid
            /\ ~DurationReported =>
                  vresult.frames = 0 /\ vresult.duration = 0
            /\ DurationReported =>
                  vresult.duration = probe_out.duration.n
            /\ (DurationReported
                /\ probe_out.nb_frames.kind \in {"number", "string"}) =>
                  vresult.frames = probe_out.nb_frames.n
       /\ (probe_out.run = "ok" /\ probe_out.codec_name = "h264"
           /\ DurationReported /\ probe_out.duration.n = 5
           /\ probe_out.nb_frames.kind = "number") =>
            vresult.valid = (probe_out.nb_frames.n = 2)
       /\ (probe_out.run = "ok" /\ DurationReported
           /\ probe_out.duration.n = 0) =>
            vresult.valid = (probe_out.codec_name \in {"vp9", "VP9"})

(***************************************************************************)
(* VideoValidator.validate_image and scan_creator_videos as called by      *)
(* scan_creator_images (utilities/video_validator.py:153-183, 226-371):    *)
(* scan_folder = "Images", media_type = "Images".                          *)
(***************************************************************************)
\* validate_image (video_validator.py:153-183)
ValidateImage(folder, image_path) ==
    IF ~Exists(folder, image_path) THEN Verdict(FALSE, 0, 0)
    ELSE IF Detect(folder, image_path) = NoFormat THEN Verdict(FALSE, 0, 0)
    ELSE Verdict(Detect(folder, image_path)[1] = "image", 1, 0)

\* The folders a scan starts on
ImageFolders ==
    {d \in [FolderPaths -> {Absent} \cup {File(c) : c \in Contents}] :
        Cardinality({p \in FolderPaths : d[p].exists}) <= MaxFiles}

\* The results dictionary: no entry, or the verdict stored under a name
NoEntry == NoVerdict
NoResults == [name \in {Str(q) : q \in FolderPaths} |-> NoEntry]

InitImages ==
    /\ disk \in ImageFolders
    /\ config \in Configs
    /\ cpc = "idle"
    /\ out_file = NoFile
    /\ last_call = NoCall
    /\ corrections = [p \in {Str(q) : q \in FolderPaths} |-> NoCorrection]
    /\ tpc = [t \in TrackerThreads |-> "idle"]
    /\ targs = [t \in TrackerThreads |-> NoRecordCall]
    /\ tcalls = [t \in TrackerThreads |-> 0]
    /\ twritten = [p \in TrackerPaths |-> {}]
    /\ scan = [pc |-> "ready"]

\* scan_creator_videos lists the files of the folder
\* (video_validator.py:268-284)
ScanBegin ==
    /\ scan.pc \in {"ready", "done"}
    /\ \E apply \in BOOLEAN :
         scan' = [pc |-> "files", apply_corrections |-> apply,
                  todo |-> {p \in FolderPaths : Exists(disk, p)},
                  results |-> NoResults, invalid_count |-> 0,
                  incorrect_count |-> 0, judged |-> {}]
    /\ UNCHANGED <<disk, corrections>>
    /\ UNCHANGED outsideScan

\* results.pop(video_file.name) stored under corrected_path.name
\* (video_validator.py:319)
Moved(results, old, new) ==
    [results EXCEPT ![new] = results[old], ![old] = NoEntry]

\* One turn of the loop over the files (video_validator.py:287-325)
ScanFile(video_file) ==
    /\ scan.pc = "files"
    /\ video_file \in scan.todo
    /\ \E rename_ok \in BOOLEAN :
         LET verdict == ValidateImage(disk, video_file)
             stored == [scan.results EXCEPT ![Str(video_file)] = verdict]
             corrected ==
                 IF scan.apply_corrections /\ config.image # {}
                 THEN ValidateAndCorrectFile(disk, video_file, config.image,
                                             config.video, {}, TRUE,
                                             rename_ok)
                 ELSE [path |-> video_file, folder |-> disk,
                       os_error |-> FALSE]
         IN /\ disk' = corrected.folder
            /\ corrections' =
                  Recorded(corrections, video_file, corrected.path)
            /\ scan' =
                  [scan EXCEPT
                     !.todo = @ \ {video_file},
                     !.results =
                         IF corrected.path # video_file
                         THEN Moved(stored, Str(video_file),
                                    Str(corrected.path))
                         ELSE stored,
                     !.invalid_count =
                         IF verdict.valid THEN @ ELSE @ + 1,
                     !.incorrect_count =
                         IF GetCorrection(Str(video_file)) # NoCorrection
                         THEN @ + 1 ELSE @,
                     !.judged = @ \cup
                         {[path |-> video_file,
                           detection |-> Detect(disk, video_file),
                           verdict |-> verdict,
                           returned |-> corrected.path]}]
    /\ UNCHANGED outsideScan

\* scan_creator_videos returns (video_validator.py:327)
ScanReturn ==
    /\ scan.pc = "files"
    /\ scan.todo = {}
    /\ scan' = [scan EXCEPT !.pc = "done"]
    /\ UNCHANGED <<disk, corrections>>
    /\ UNCHANGED outsideScan

NextScan ==
    \/ ScanBegin
    \/ \E video_file \in FolderPaths : ScanFile(video_file)
    \/ ScanReturn

InitScan ==
    /\ InitImages
    /\ QueueIdle /\ DownloaderIdle /\ RepairIdle /\ WaitIdle /\ SniffIdle
    /\ ProbeIdle /\ LockIdle
    /\ ProcIdle

SpecScan == InitScan /\ [][NextScan]_vars

(***************************************************************************)
(* C19: validate_image reports a file valid exactly when detect_format     *)
(* gives media kind image, and whatever the outcome it returns frame       *)
(* count 1 and duration 0.                                                 *)
(***************************************************************************)
C19_ImageSentinels ==
    scan.pc \in {"files", "done"} =>
       \A j \in scan.judged :
          /\ j.verdict.valid <=> (j.detection[1] = "image")
          /\ j.verdict.frames = 1
          /\ j.verdict.duration = 0

(***************************************************************************)
(* C20: a file for which detect_format gives none is not reported or       *)
(* counted as invalid by validate_image and the Images-folder scan, and    *)
(* no rename of it is attempted.                                           *)
(***************************************************************************)
C20_NoneIsNotInvalid ==
    scan.pc \in {"files", "done"} =>
       /\ \A j \in scan.judged :
             j.detection = NoFormat =>
                /\ j.verdict.valid
                /\ j.returned = j.path
                /\ Exists(disk, j.path)
       /\ scan.invalid_count =
             Cardinality({j \in scan.judged :
                             j.detection # NoFormat /\ ~j.verdict.valid})

(***************************************************************************)
(* download_files followed by a folder scan in the same process: both use  *)
(* the process-wide tracker (core/extension_tracker.py:151-169,            *)
(* core/downloader.py:75, utilities/video_validator.py:41).  The scan      *)
(* starts when no download is between its write and its check, on a       *)
(* folder of at most MaxFiles files.                                       *)
(***************************************************************************)
DownloadBeforeScan(path, bytes) ==
    /\ scan.pc = "ready"
    /\ Cardinality({p \in FolderPaths : Exists(disk, p)}) < MaxFiles
    /\ WriteDownloaded(path, bytes)

ScanAfterDownload ==
    /\ cpc = "ready"
    /\ ScanBegin

NextDownloadScan ==
    \/ \E path \in FolderPaths, bytes \in Contents :
         DownloadBeforeScan(path, bytes)
    \/ CorrectDownloaded
    \/ ScanAfterDownload
    \/ \E video_file \in FolderPaths : ScanFile(video_file)
    \/ ScanReturn

InitDownloadScan ==
    /\ InitFolder
    /\ scan = [pc |-> "ready"]
    /\ QueueIdle /\ DownloaderIdle /\ RepairIdle /\ WaitIdle /\ SniffIdle
    /\ ProbeIdle /\ LockIdle
    /\ ProcIdle

SpecDownloadScan == InitDownloadScan /\ [][NextDownloadScan]_vars

\* The loop of the scan takes video_file in this step
Scans(video_file) ==
    /\ scan.pc = "files"
    /\ video_file \in scan.todo
    /\ scan'.pc = "files"
    /\ scan'.todo = scan.todo \ {video_file}

\* The last download-time check renamed its file to video_file
CorrectedByDownloader(video_file) ==
    /\ last_call.kind = "download"
    /\ last_call.returned # last_call.path
    /\ last_call.returned = video_file

(***************************************************************************)
(* C24: in the folder scan a file that the Downloader renamed and recorded *)
(* in the tracker earlier in the process is counted in incorrect_count,    *)
(* and a file under whose path no correction was recorded is not counted.  *)
(***************************************************************************)
C24_CorrectedFilesCounted ==
    [][\A video_file \in FolderPaths :
          Scans(video_file) =>
             /\ CorrectedByDownloader(video_file) =>
                   scan'.incorrect_count = scan.incorrect_count + 1
             /\ GetCorrection(Str(video_file)) = NoCorrection =>
                   scan'.incorrect_count = scan.incorrect_count]_vars

(***************************************************************************)
(* The streamed path of download_files (core/downloader.py:250, 323-481)   *)
(* run by two invocations of the tool for the same output path, on a host  *)
(* where fcntl was imported or where neither fcntl nor msvcrt was          *)
(* (downloader.py:21-35).  A file is an inode: open("wb") truncates the    *)
(* inode the path names or creates one, flock locks the inode, unlink      *)
(* removes the name and leaves the open inodes to their writers.           *)
(***************************************************************************)
Invocations == {1, 2}
Primitives == {"fcntl", "none"}

NoInode == [bytes |-> <<>>, holder |-> 0]
NotStarted == [pc |-> "idle", fd |-> 0, lock_acquired |-> FALSE,
               written |-> 0, error |-> "none", outcome |-> "none"]

\* The content an invocation streams: MaxBlocks chunks of its own
Full(i) == [k \in 1..MaxBlocks |-> i]

\* out_path.exists() and the bytes at out_path
OnDisk == store.path # 0
DiskBytes == store.inodes[store.path].bytes

\* f.write(chunk) at the writer's offset; a gap left by a truncation reads
\* as zeros
WriteAt(bytes, offset, i) ==
    [k \in 1..(IF Len(bytes) > offset + 1 THEN Len(bytes) ELSE offset + 1) |->
        IF k = offset + 1 THEN i
        ELSE IF k <= Len(bytes) THEN bytes[k] ELSE 0]

\* Another invocation holds the lock on the inode
HeldByOther(i, n) ==
    n # 0 /\ store.inodes[n].holder \notin {0, i}

InitHost ==
    /\ host \in [primitive : Primitives, lock_policy : LockPolicies]
    /\ store = [path |-> 0, inodes |-> [n \in Invocations |-> NoInode]]
    /\ inv = [i \in Invocations |-> NotStarted]
    /\ interfered = {}

\* `if out_path.exists(): ... continue` (downloader.py:250-254); otherwise
\* the response is requested (downloader.py:258-266): the request fails, or
\* the response is too large to buffer (downloader.py:277-280, 322)
CheckExists(i) ==
    /\ inv[i].pc = "idle"
    /\ IF OnDisk
       THEN inv' = [inv EXCEPT ![i].pc = "skipped", ![i].outcome = "skipped"]
       ELSE \E responds \in BOOLEAN :
               inv' = [inv EXCEPT
                         ![i].pc = IF responds THEN "open" ELSE "except",
                         ![i].error = IF responds THEN @ ELSE "network"]
    /\ UNCHANGED <<host, store, interfered>>
    /\ UNCHANGED outsideLock

\* `f = open(out_path, "wb")` (downloader.py:326)
OpenForWrite(i) ==
    /\ inv[i].pc = "open"
    /\ LET n == IF OnDisk THEN store.path ELSE i
       IN /\ store' = [path |-> n,
                       inodes |-> [store.inodes EXCEPT ![n].bytes = <<>>]]
          /\ inv' = [inv EXCEPT ![i].pc = "lock", ![i].fd = n]
          /\ interfered' =
                IF OnDisk /\ HeldByOther(i, n)
                THEN interfered \cup {"truncate"} ELSE interfered
    /\ UNCHANGED host
    /\ UNCHANGED outsideLock

\* `self.lock_policy == LockPolicy.FAIL and not lock_acquired`
\* (downloader.py:359)
LockRequired(acquired) == host.lock_policy = "fail" /\ ~acquired

\* The lock step (downloader.py:327-362): no primitive leaves
\* lock_acquired False; flock(LOCK_EX) waits for the holder; flock with
\* LOCK_NB on a held inode raises OSError, which is swallowed
AcquireLock(i) ==
    /\ inv[i].pc = "lock"
    /\ ~(host.primitive = "fcntl" /\ host.lock_policy = "block"
         /\ HeldByOther(i, inv[i].fd))
    /\ LET acquired == host.primitive = "fcntl" /\ ~HeldByOther(i, inv[i].fd)
       IN /\ store' = IF acquired
                      THEN [store EXCEPT !.inodes[inv[i].fd].holder = i]
                      ELSE store
          /\ inv' = [inv EXCEPT
                       ![i].lock_acquired = acquired,
                       ![i].error = IF LockRequired(acquired)
                                    THEN "lock" ELSE @,
                       ![i].pc = IF LockRequired(acquired)
                                 THEN "finally" ELSE "write"]
    /\ UNCHANGED <<host, interfered>>
    /\ UNCHANGED outsideLock

\* One chunk of `for chunk in resp.iter_content(...)`: written, or the
\* stream breaks with a network error (downloader.py:364-373)
WriteChunk(i) ==
    /\ inv[i].pc = "write"
    /\ inv[i].written < MaxBlocks
    /\ \E arrives \in BOOLEAN :
         IF arrives
         THEN /\ store' =
                    [store EXCEPT !.inodes[inv[i].fd].bytes =
                                      WriteAt(@, inv[i].written, i)]
              /\ inv' = [inv EXCEPT ![i].written = @ + 1]
              /\ interfered' =
                    IF HeldByOther(i, inv[i].fd)
                    THEN interfered \cup {"write"} ELSE interfered
         ELSE /\ inv' = [inv EXCEPT ![i].error = "network",
                                    ![i].pc = "finally"]
              /\ UNCHANGED <<store, interfered>>
    /\ UNCHANGED host
    /\ UNCHANGED outsideLock

\* The response is exhausted: flush and fsync (downloader.py:374-378)
EndOfStream(i) ==
    /\ inv[i].pc = "write"
    /\ inv[i].written = MaxBlocks
    /\ inv' = [inv EXCEPT ![i].pc = "finally"]
    /\ UNCHANGED <<host, store, interfered>>
    /\ UNCHANGED outsideLock

\* The finally block: unlock if locked and close (downloader.py:379-394);
\* the extension check that follows (downloader.py:396-418) renames nothing,
\* the streamed content being of the format the name says.  Without an
\* exception the item is counted as downloaded (downloader.py:420-435)
UnlockAndClose(i) ==
    /\ inv[i].pc = "finally"
    /\ store' = IF inv[i].lock_acquired
                THEN [store EXCEPT !.inodes[inv[i].fd].holder = 0]
                ELSE store
    /\ inv' = [inv EXCEPT
                 ![i].lock_acquired = FALSE,
                 ![i].pc = IF inv[i].error = "none" THEN "done"
                                                    ELSE "except",
                 ![i].outcome = IF inv[i].error = "none" THEN "success"
                                                         ELSE @]
    /\ UNCHANGED <<host, interfered>>
    /\ UNCHANGED outsideLock

\* `except Exception`: unlink out_path if it exists, then the item goes to
\* the retry queue or is skipped (downloader.py:459-481)
FailItem(i) ==
    /\ inv[i].pc = "except"
    /\ store' = [store EXCEPT !.path = 0]
    /\ interfered' =
          IF OnDisk /\ HeldByOther(i, store.path)
          THEN interfered \cup {"delete"} ELSE interfered
    /\ inv' = [inv EXCEPT ![i].pc = "done", ![i].outcome = "failed"]
    /\ UNCHANGED host
    /\ UNCHANGED outsideLock

NextLock ==
    \/ \E i \in Invocations : CheckExists(i)
    \/ \E i \in Invocations : OpenForWrite(i)
    \/ \E i \in Invocations : AcquireLock(i)
    \/ \E i \in Invocations : WriteChunk(i)
    \/ \E i \in Invocations : EndOfStream(i)
    \/ \E i \in Invocations : UnlockAndClose(i)
    \/ \E i \in Invocations : FailItem(i)

InitLock ==
    /\ InitHost
    /\ QueueIdle /\ DownloaderIdle /\ RepairIdle /\ WaitIdle /\ TrackerIdle
    /\ SniffIdle /\ CorrectIdle /\ ProbeIdle /\ ScanIdle
    /\ ProcIdle

SpecLock == InitLock /\ [][NextLock]_vars

(***************************************************************************)
(* C17: with an OS lock and policy block or fail, an invocation that does  *)
(* not hold the lock never truncates, writes to or deletes the file the    *)
(* holder has locked; under fail the invocation that could not lock ends   *)
(* as a failed item, and the file of the holder that completed is on disk  *)
(* with the holder's full content.                                         *)
(***************************************************************************)
C17_LoserLeavesFileAlone ==
    (host.primitive = "fcntl" /\ host.lock_policy \in {"block", "fail"}) =>
       /\ interfered = {}
       /\ \A i \in Invocations :
             (inv[i].pc = "done" /\ inv[i].error = "lock") =>
                inv[i].outcome = "failed"
       /\ \A i, j \in Invocations :
             (/\ host.lock_policy = "fail"
              /\ inv[i].pc = "done" /\ inv[i].error = "lock"
              /\ inv[j].pc = "done" /\ inv[j].outcome = "success") =>
                OnDisk /\ DiskBytes = Full(j)

(***************************************************************************)
(* C18: on a host with neither lock primitive the lock step does nothing   *)
(* under best_effort, block and fail: no download fails for want of a      *)
(* lock, and an invocation running alone completes with its file written   *)
(* in full.                                                                *)
(***************************************************************************)
C18_NoPrimitiveNoOp ==
    host.primitive = "none" =>
       \A i \in Invocations :
          /\ inv[i].error # "lock"
          /\ (/\ inv[i].pc = "done"
              /\ inv[i].error # "network"
              /\ inv[i].outcome # "skipped"
              /\ \A j \in Invocations \ {i} : inv[j].pc = "idle") =>
                /\ inv[i].outcome = "success"
                /\ OnDisk /\ DiskBytes = Full(i)

(***************************************************************************)
(* RepairManager (core/repair_manager.py)                                  *)
(***************************************************************************)
\* RepairManager.load_report (repair_manager.py:64-105): the parsed report,
\* or None. The entries of a creator's list are not looked at.
LoadReport(f) ==
    IF f.kind # "report" THEN None
    ELSE IF \E c \in 1..Len(f.creators) : ~f.creators[c].is_list THEN None
    ELSE f

\* `total_videos += len(videos_list)` over the creators
\* (repair_manager.py:191-193)
RECURSIVE TotalVideos(_)
TotalVideos(cs) ==
    IF cs = <<>> THEN 0
    ELSE Len(cs[1].entries) + TotalVideos(Tail(cs))

\* What download_files([item], ...) can do (downloader.py:204-494): report
\* one download, report none (the file is there already, or the download
\* failed), raise an exception, or be interrupted.
RepairDownloadResults == {"downloaded", "nothing", "exception", "interrupt"}

\* What the removal finds at an entry's path (repair_manager.py:226-230)
RemovalResults == {"absent", "unlinked", "oserror"}

InitRepair ==
    /\ report_file \in ReportFiles
    /\ report_given = report_file
    /\ report = None
    /\ rpc = "load"
    /\ ci = 0
    /\ ei = 0
    /\ total_videos = 0
    /\ total_succeeded = 0
    /\ removed_count = 0
    /\ result = NoResult
    /\ proceeded = FALSE
    /\ removed = 0
    /\ download_calls = 0
    /\ redownloaded = 0

\* `return (0, 0)` (repair_manager.py:182, 188, 206)
ReturnNothing ==
    /\ result' = <<0, 0>>
    /\ rpc' = "returned"

\* repair_manager.py:176-193
RepairLoad ==
    /\ rpc = "load"
    /\ report' = LoadReport(report_file)
    /\ IF report' = None \/ report'.creators = <<>>
       THEN /\ ReturnNothing
            /\ UNCHANGED total_videos
       ELSE /\ total_videos' = TotalVideos(report'.creators)
            /\ rpc' = "confirm"
            /\ UNCHANGED result
    /\ UNCHANGED <<report_file, ci, ei, total_succeeded, removed_count,
                   report_given, proceeded, removed, download_calls,
                   redownloaded>>
    /\ UNCHANGED outsideRepair

\* repair_manager.py:195-213: auto_yes, or the answer to Confirm.ask
RepairConfirm ==
    /\ rpc = "confirm"
    /\ \E proceed \in BOOLEAN :
         IF proceed
         THEN /\ rpc' = "remove"
              /\ ci' = 1
              /\ ei' = 1
              /\ proceeded' = TRUE
              /\ UNCHANGED result
         ELSE /\ ReturnNothing
              /\ UNCHANGED <<ci, ei, proceeded>>
    /\ UNCHANGED <<report_file, report, total_videos, total_succeeded,
                   removed_count, report_given, removed, download_calls,
                   redownloaded>>
    /\ UNCHANGED outsideRepair

\* `except OSError: pass` around exists() and unlink()
\* (repair_manager.py:226-230): what the removal finds never leaves the
\* try block as an exception
RemovalCaughtNot(found) == found # "oserror"
RemovalCaught(found) == TRUE

\* The removal phase of one creator, entry by entry
\* (repair_manager.py:222-233); removed_count starts at 0 for the creator
\* (repair_manager.py:220) and counts every entry, deleted or not (232)
RepairRemove ==
    /\ rpc = "remove"
    /\ LET invalid_videos == report.creators[ci].entries
       IN IF ei > Len(invalid_videos)
          THEN /\ rpc' = "download"
               /\ ei' = 1
               /\ UNCHANGED <<removed, removed_count>>
          ELSE IF invalid_videos[ei] = "no_path"
          THEN /\ rpc' = "raised"
               /\ UNCHANGED <<ei, removed, removed_count>>
          ELSE \E found \in RemovalResults :
                 IF RemovalCaught(found)
                 THEN /\ removed' = IF found = "unlinked" THEN removed + 1
                                    ELSE removed
                      /\ removed_count' = removed_count + 1
                      /\ ei' = ei + 1
                      /\ UNCHANGED rpc
                 ELSE /\ rpc' = "raised"
                      /\ UNCHANGED <<ei, removed, removed_count>>
    /\ UNCHANGED <<report_file, report, ci, total_videos, total_succeeded,
                   result, report_given, proceeded, download_calls,
                   redownloaded>>
    /\ UNCHANGED outsideRepair

\* The download phase of one creator, entry by entry, and the step to the
\* next creator (repair_manager.py:217, 237-262)
RepairDownload ==
    /\ rpc = "download"
    /\ LET invalid_videos == report.creators[ci].entries
       IN IF ei > Len(invalid_videos)
          THEN /\ IF ci = Len(report.creators)
                  THEN /\ rpc' = "cleanup"
                       /\ UNCHANGED <<ci, ei, removed_count>>
                  ELSE /\ rpc' = "remove"
                       /\ ci' = ci + 1
                       /\ ei' = 1
                       /\ removed_count' = 0
               /\ UNCHANGED <<total_succeeded, download_calls, redownloaded>>
          ELSE IF invalid_videos[ei] = "no_filename"
          THEN /\ rpc' = "raised"
               /\ UNCHANGED <<ci, ei, total_succeeded, download_calls,
                              redownloaded, removed_count>>
          ELSE \E downloads \in RepairDownloadResults :
                 /\ download_calls' = download_calls + 1
                 /\ UNCHANGED removed_count
                 /\ IF downloads = "interrupt"
                    THEN /\ rpc' = "interrupted"
                         /\ UNCHANGED <<ci, ei, total_succeeded,
                                        redownloaded>>
                    ELSE /\ total_succeeded' =
                              IF downloads = "downloaded"
                              THEN total_succeeded + 1 ELSE total_succeeded
                         /\ redownloaded' =
                              IF downloads = "downloaded"
                              THEN redownloaded + 1 ELSE redownloaded
                         /\ ei' = ei + 1
                         /\ UNCHANGED <<rpc, ci>>
    /\ UNCHANGED <<report_file, report, total_videos, result, report_given,
                   proceeded, removed>>
    /\ UNCHANGED outsideRepair

\* `if total_succeeded == total_videos and total_videos > 0`
\* (repair_manager.py:282)
AllSucceededSome == total_succeeded > 0
AllSucceeded == total_succeeded = total_videos /\ total_videos > 0

\* repair_manager.py:282-291
RepairCleanup ==
    /\ rpc = "cleanup"
    /\ report_file' = IF AllSucceeded THEN ReportMissing ELSE report_file
    /\ result' = <<total_videos, total_succeeded>>
    /\ rpc' = "returned"
    /\ UNCHANGED <<report, ci, ei, total_videos, total_succeeded,
                   removed_count, report_given, proceeded, removed,
                   download_calls, redownloaded>>
    /\ UNCHANGED outsideRepair

NextRepair ==
    \/ RepairLoad
    \/ RepairConfirm
    \/ RepairRemove
    \/ RepairDownload
    \/ RepairCleanup

InitRepairCall ==
    /\ InitRepair /\ QueueIdle /\ DownloaderIdle /\ WaitIdle /\ TrackerIdle
    /\ SniffIdle /\ CorrectIdle /\ ProbeIdle /\ ScanIdle /\ LockIdle
    /\ ProcIdle
SpecRepair == InitRepairCall /\ [][NextRepair]_vars

StructurallyInvalid(f) ==
    \/ f.kind # "report"
    \/ \E c \in 1..Len(f.creators) :
         \/ ~f.creators[c].is_list
         \/ \E e \in 1..Len(f.creators[c].entries) :
              f.creators[c].entries[e] # "ok"

C8_InvalidReportIsNoReport ==
    (rpc # "idle" /\ StructurallyInvalid(report_given)) =>
        /\ rpc # "raised"
        /\ removed = 0
        /\ download_calls = 0
        /\ rpc = "returned" => result = <<0, 0>>

(***************************************************************************)
(* C23: in repair_videos the removal of every entry of a creator has been  *)
(* attempted before any redownload of that creator starts; an entry whose  *)
(* file is missing or whose delete raises OSError is passed over and the   *)
(* removal goes on to the next entry; and the report file is deleted, or   *)
(* found to be kept, only after a download call was made for every entry   *)
(* of every creator.                                                       *)
(***************************************************************************)
EntriesOf(c) == report.creators[c].entries

C23_RemoveThenDownload ==
    /\ [](rpc = "download" => removed_count = Len(EntriesOf(ci)))
    /\ [](rpc \in {"remove", "download"} =>
             download_calls <= TotalVideos(SubSeq(report.creators, 1, ci)))
    /\ [][(rpc = "remove" /\ ei <= Len(EntriesOf(ci))
                          /\ EntriesOf(ci)[ei] # "no_path") =>
             (rpc' = "remove" /\ ei' = ei + 1
                             /\ removed_count' = removed_count + 1)]_vars
    /\ [][download_calls' # download_calls =>
             (rpc = "download" /\ removed_count = Len(EntriesOf(ci)))]_vars
    /\ [][(report_file' # report_file \/ result' # result) =>
             \/ ~proceeded'
             \/ /\ rpc = "cleanup"
                /\ download_calls = TotalVideos(report.creators)
                /\ ci = Len(report.creators)
                /\ removed_count = Len(EntriesOf(ci))]_vars

C23_Witness ==
    /\ rpc = "returned"
    /\ proceeded
    /\ Len(report.creators) = 2
    /\ Len(EntriesOf(1)) = 2
    /\ removed = 1
    /\ download_calls = TotalVideos(report.creators)
    /\ report_file = ReportMissing

(***************************************************************************)
(* download_files with the retry worker running, as process_creator calls  *)
(* it (core/processor.py:142-153): the foreground thread runs the loop of  *)
(* download_files while the worker thread takes the failed items and runs  *)
(* MediaDownloader._retry_download on them (core/downloader.py:99-165).    *)
(* All items of the batch carry the same URL, so the two threads meet on   *)
(* one output path.  The lock policy is the default or fail (block takes   *)
(* the steps of best_effort); max_retries is the largest of the model.     *)
(***************************************************************************)
SameUrl == 1

InitRetryFiles ==
    /\ InitQueue /\ behaviour = "any" /\ max_retries = MaxMaxRetries
    /\ items = [n \in 1..MaxItems |-> SameUrl]
    /\ enable_retry_queue = TRUE
    /\ lock_policy \in {"best_effort", "fail"}
    /\ fs = [p \in Paths |-> "absent"]
    /\ dlpc = "idle"
    /\ call = "first"
    /\ idx = 1
    /\ out_path = NoPath
    /\ handle = FALSE
    /\ lock_acquired = FALSE
    /\ successful_downloads = 0
    /\ images_downloaded = 0
    /\ videos_downloaded = 0
    /\ downloaded_extensions = [e \in Exts |-> 0]
    /\ log = NoLogEntry
    /\ proc = [pc |-> "files", wfile |-> [w \in Threads |-> FALSE]]
    /\ RepairIdle /\ WaitIdle /\ TrackerIdle /\ SniffIdle /\ CorrectIdle
    /\ ProbeIdle /\ ScanIdle /\ LockIdle

\* start_retry_queue(), then the call of download_files
\* (processor.py:142-153; downloader.py:167-170; retry_queue.py:115-129)
StartRetryQueue ==
    /\ dlpc = "idle"
    /\ ~is_running
    /\ \E w \in Threads :
         /\ w = FreeThread
         /\ stop_event' = FALSE
         /\ is_running' = TRUE
         /\ worker_thread' = w
         /\ wpc' = [wpc EXCEPT ![w] = "loop"]
         /\ witem' = [witem EXCEPT ![w] = NoItem]
    /\ dlpc' = "next"
    /\ UNCHANGED <<max_retries, queue, permanently_failed,
                   successful_retries, mainpc, behaviour, added, attempts,
                   owed, outcome, sinceStop>>
    /\ UNCHANGED <<items, enable_retry_queue, lock_policy, fs, call, idx,
                   out_path, handle, lock_acquired, successful_downloads,
                   images_downloaded, videos_downloaded,
                   downloaded_extensions, log>>
    /\ UNCHANGED <<rpvars, waitvars, trackervars, sniffvars, correctvars,
                   probevars, scan, lockvars, proc>>

\* _process_item after the download function has returned
\* (retry_queue.py:247-270): the counter, the list of permanent failures
\* or the tail of the queue, and the worker back at the top of its loop
Returned(w, res) ==
    LET it == witem[w]
    IN /\ attempts' = [attempts EXCEPT ![it.id] = @ + 1]
       /\ owed' = [i \in Ids |->
                     IF i = it.id /\ Processed(it, res).ended = "pending"
                     THEN IdsOf(queue)
                     ELSE owed[i] \ {it.id}]
       /\ sinceStop' = [sinceStop EXCEPT
                          ![w] = IF stop_event THEN @ + 1 ELSE @]
       /\ queue' = Processed(it, res).queue
       /\ permanently_failed' = Processed(it, res).permanently_failed
       /\ successful_retries' = Processed(it, res).successful_retries
       /\ outcome' = [outcome EXCEPT ![it.id] = Processed(it, res).ended]
       /\ wpc' = [wpc EXCEPT ![w] = "loop"]
       /\ witem' = [witem EXCEPT ![w] = NoItem]
       /\ proc' = [proc EXCEPT !.wfile[w] = FALSE]

\* _retry_download up to open(out_path, "wb") (downloader.py:109-134): the
\* request, the mkdir or the open fails and the handler removes whatever
\* is at out_path (157-165), or the file is there, empty and open
RetryOpen(w) ==
    /\ wpc[w] = "process"
    /\ ~proc.wfile[w]
    /\ \E r \in {"ok", "error"} :
         IF r = "error"
         THEN /\ fs' = Unlink(fs, witem[w].out_path)
              /\ Returned(w, "false")
         ELSE /\ fs' = [fs EXCEPT ![witem[w].out_path] = "empty"]
              /\ proc' = [proc EXCEPT !.wfile[w] = TRUE]
              /\ UNCHANGED <<queue, permanently_failed, successful_retries,
                             wpc, witem, attempts, owed, outcome,
                             sinceStop>>
    /\ UNCHANGED <<max_retries, is_running, stop_event, worker_thread,
                   mainpc, behaviour, added>>
    /\ UNCHANGED <<items, enable_retry_queue, lock_policy, dlpc, call, idx,
                   out_path, handle, lock_acquired, successful_downloads,
                   images_downloaded, videos_downloaded,
                   downloaded_extensions, log>>
    /\ UNCHANGED <<rpvars, waitvars, trackervars, sniffvars, correctvars,
                   probevars, scan, lockvars>>

\* _retry_download from the chunk loop on (downloader.py:134-165): the
\* body is written, the file closed, validated and renamed, and True is
\* returned; or the loop raises, the file is closed and the handler
\* removes it
RetryWrite(w) ==
    /\ wpc[w] = "process"
    /\ proc.wfile[w]
    /\ \E r \in {"ok", "error"}, data \in BOOLEAN :
         LET p == witem[w].out_path
             f1 == [fs EXCEPT ![p] =
                       IF r = "ok" THEN "complete"
                       ELSE IF data THEN "partial" ELSE "empty"]
         IN IF r = "ok"
            THEN /\ data
                 /\ \E det \in Detections(f1, p) :
                      fs' = CorrectedFs(f1, p, det)
                 /\ Returned(w, "ok")
            ELSE /\ fs' = Unlink(f1, p)
                 /\ Returned(w, "false")
    /\ UNCHANGED <<max_retries, is_running, stop_event, worker_thread,
                   mainpc, behaviour, added>>
    /\ UNCHANGED <<items, enable_retry_queue, lock_policy, dlpc, call, idx,
                   out_path, handle, lock_acquired, successful_downloads,
                   images_downloaded, videos_downloaded,
                   downloaded_extensions, log>>
    /\ UNCHANGED <<rpvars, waitvars, trackervars, sniffvars, correctvars,
                   probevars, scan, lockvars>>

NextRetryFiles ==
    \/ StartRetryQueue
    \/ DLBegin
    \/ DLRequest
    \/ DLBuffer
    \/ DLBufWrite
    \/ DLStreamOpen
    \/ DLStreamWrite
    \/ DLReturn
    \/ \E w \in Threads : WorkerCheck(w)
    \/ \E w \in Threads : WorkerGet(w)
    \/ \E w \in Threads : RetryOpen(w)
    \/ \E w \in Threads : RetryWrite(w)

SpecRetryFiles == InitRetryFiles /\ [][NextRetryFiles]_vars

\* The worker's call of the download function returns False in this step
RetryFails(w) ==
    /\ wpc[w] = "process"
    /\ wpc'[w] = "loop"
    /\ successful_retries' = successful_retries

WorkerWrites(w, p) ==
    wpc[w] = "process" /\ proc.wfile[w] /\ witem[w].out_path = p
ForegroundWrites(p) == handle /\ out_path = p

\* The foreground opens, writes and closes p in this step (the buffered
\* path), and a thread's failure handler removes the file at p
ForegroundWritesWhole(p) ==
    dlpc = "buf_write" /\ out_path = p /\ log'.wrote /\ log'.done
ForegroundRemoves(p) ==
    /\ dlpc # "interrupted"
    /\ EndsInFailure \/ dlpc' = "interrupted"
    /\ log'.path = p
    /\ fs[p] # "absent"
WorkerRemoves(w, p) ==
    RetryFails(w) /\ witem[w].out_path = p /\ fs[p] # "absent"

(***************************************************************************)
(* C28: the foreground thread and the retry worker never have the same     *)
(* output path open for writing at the same time, and neither removes the  *)
(* file at a path while the other is writing it; this covers a batch of    *)
(* items with one URL whose first item failed.                             *)
(***************************************************************************)
C28_NoSharedOutputPath ==
    /\ [](\A w \in Threads, p \in Paths :
             ~(WorkerWrites(w, p) /\ ForegroundWrites(p)))
    /\ [][\A w \in Threads, p \in Paths :
             /\ ~(WorkerWrites(w, p) /\ ForegroundWritesWhole(p))
             /\ ~(WorkerWrites(w, p) /\ ForegroundRemoves(p))
             /\ ~(ForegroundWrites(p) /\ WorkerRemoves(w, p))]_vars

(***************************************************************************)
(* The callers of download_files and the retry queue.  In the update flow  *)
(* CreatorProcessor.process_creator (core/processor.py:138-183) starts the *)
(* queue, downloads, waits for pending retries, stops the queue and adds   *)
(* the queue's count of successful retries, one creator after another on   *)
(* one MediaDownloader.  In the repair flow RepairManager.repair_videos    *)
(* (core/repair_manager.py:240-252) calls download_files with one item     *)
(* per entry on a downloader made by create_downloader                     *)
(* (core/component_factory.py:91-101), whose queue is enabled.  Here       *)
(* download_files takes one item per step (written, skipped or failed and  *)
(* queued); the worker threads run beside it.                              *)
(***************************************************************************)
Flows == {"update", "repair"}

InitCallers ==
    /\ InitQueue /\ behaviour = "any"
    /\ proc \in {[pc |-> "start", flow |-> fl, creator |-> 1, left |-> 0,
                  successful_downloads |-> 0, files_downloaded |-> 0,
                  owner |-> [i \in Ids |-> 0], written |-> <<>>,
                  reported |-> <<>>] : fl \in Flows}
    /\ DownloaderIdle /\ RepairIdle /\ WaitIdle /\ TrackerIdle
    /\ SniffIdle /\ CorrectIdle /\ ProbeIdle /\ ScanIdle /\ LockIdle

\* What the foreground steps of this section leave alone
outsideCallers == <<dlvars, rpvars, trackervars, sniffvars, correctvars,
                    probevars, scan, lockvars>>

\* process_creator up to the call of download_files (processor.py:138-153)
\* with n items needing download, or the repair loop at its next entry
\* (repair_manager.py:241-246)
ProcessStart ==
    /\ proc.pc = "start"
    /\ mainpc = "ready"
    /\ \E n \in 0..MaxItems :
         /\ proc.flow = "repair" => n = 1
         /\ IF proc.flow = "update" /\ n > 0 /\ ~is_running
            THEN /\ HasFreeThread
                 /\ stop_event' = FALSE
                 /\ is_running' = TRUE
                 /\ worker_thread' = FreeThread
                 /\ wpc' = [wpc EXCEPT ![FreeThread] = "loop"]
                 /\ witem' = [witem EXCEPT ![FreeThread] = NoItem]
                 /\ sinceStop' = [x \in Threads |-> 0]
            ELSE UNCHANGED <<stop_event, is_running, worker_thread, wpc,
                             witem, sinceStop>>
         /\ proc' = [proc EXCEPT
                        !.pc = IF n = 0 THEN "return" ELSE "download",
                        !.left = n,
                        !.successful_downloads = 0,
                        !.files_downloaded = 0]
    /\ UNCHANGED <<max_retries, queue, permanently_failed,
                   successful_retries, mainpc, behaviour, added, attempts,
                   owed, outcome>>
    /\ UNCHANGED <<waitvars, outsideCallers>>

\* One pass of the loop of download_files (downloader.py:226-481): the
\* item is skipped, written and counted, or it fails and is added to the
\* retry queue (472-480; retry_queue.py:80-113)
ProcessItem ==
    /\ proc.pc = "download"
    /\ proc.left > 0
    /\ \E r \in {"skipped", "written", "failed"} :
         CASE r = "skipped" ->
                /\ proc' = [proc EXCEPT !.left = @ - 1]
                /\ UNCHANGED <<queue, added, outcome>>
           [] r = "written" ->
                /\ proc' = [proc EXCEPT !.left = @ - 1,
                                        !.successful_downloads = @ + 1]
                /\ UNCHANGED <<queue, added, outcome>>
           [] r = "failed" ->
                /\ added < MaxItems
                /\ added' = added + 1
                /\ queue' = Append(queue,
                                   NewFailedDownload(added + 1, NoUrl,
                                                     NoPath, "first_error"))
                /\ outcome' = [outcome EXCEPT ![added + 1] = "pending"]
                /\ proc' = [proc EXCEPT
                               !.left = @ - 1,
                               !.owner[added + 1] = proc.creator]
    /\ UNCHANGED <<max_retries, permanently_failed, successful_retries,
                   is_running, stop_event, worker_thread, wpc, witem,
                   mainpc, behaviour, attempts, owed, sinceStop>>
    /\ UNCHANGED <<waitvars, outsideCallers>>

\* download_files returns its count; process_creator reads the queue's
\* statistics and, with retries pending, calls wait_for_retries
\* (processor.py:147-162); the timeout of 300 s is MaxTimeout poll
\* intervals.  The repair loop goes on to its next entry.
ProcessStats ==
    /\ proc.pc = "download"
    /\ proc.left = 0
    /\ IF proc.flow = "update" /\ GetStats.pending > 0
       THEN /\ mainpc' = "wait_poll"
            /\ wait_timeout' = MaxTimeout
            /\ wait_elapsed' = 0
            /\ wait_result' = "none"
       ELSE UNCHANGED <<mainpc, waitvars>>
    /\ proc' = [proc EXCEPT
                   !.pc = IF proc.flow = "update" THEN "stop" ELSE "return",
                   !.files_downloaded = proc.successful_downloads]
    /\ UNCHANGED <<max_retries, queue, permanently_failed,
                   successful_retries, is_running, stop_event,
                   worker_thread, wpc, witem, behaviour, added, attempts,
                   owed, outcome, sinceStop>>
    /\ UNCHANGED outsideCallers

\* stop_retry_queue(wait=False) once the wait, if any, has returned
\* (processor.py:164; retry_queue.py:131-148)
ProcessStop ==
    /\ proc.pc = "stop"
    /\ mainpc = "ready"
    /\ IF is_running
       THEN /\ stop_event' = TRUE
            /\ is_running' = FALSE
            /\ sinceStop' = [x \in Threads |-> 0]
       ELSE UNCHANGED <<stop_event, is_running, sinceStop>>
    /\ proc' = [proc EXCEPT !.pc = "count"]
    /\ UNCHANGED <<max_retries, queue, permanently_failed,
                   successful_retries, worker_thread, wpc, witem, mainpc,
                   behaviour, added, attempts, owed, outcome>>
    /\ UNCHANGED <<waitvars, outsideCallers>>

\* `files_downloaded += final_stats["successful"]` (processor.py:166-168)
ProcessCount ==
    /\ proc.pc = "count"
    /\ proc' = [proc EXCEPT
                   !.pc = "return",
                   !.files_downloaded = @ + GetStats.successful]
    /\ UNCHANGED rqvars
    /\ UNCHANGED <<waitvars, outsideCallers>>

\* process_creator returns files_downloaded and process_creators takes
\* the next creator (processor.py:189-196); the repair loop takes its
\* next entry
ProcessReturn ==
    /\ proc.pc = "return"
    /\ proc' = [proc EXCEPT
                   !.pc = IF proc.creator < MaxCreators THEN "start"
                          ELSE "done",
                   !.creator = IF proc.creator < MaxCreators THEN @ + 1
                               ELSE @,
                   !.written = Append(@, proc.successful_downloads),
                   !.reported = Append(@, proc.files_downloaded)]
    /\ UNCHANGED rqvars
    /\ UNCHANGED <<waitvars, outsideCallers>>

ForegroundStep ==
    \/ ProcessStart
    \/ ProcessItem
    \/ ProcessStats
    \/ WaitPoll
    \/ WaitSleep
    \/ ProcessStop
    \/ ProcessCount
    \/ ProcessReturn

NextCallers ==
    \/ ProcessStart
    \/ ProcessItem
    \/ ProcessStats
    \/ WaitPoll
    \/ WaitSleep
    \/ ProcessStop
    \/ ProcessCount
    \/ ProcessReturn
    \/ \E w \in Threads : WorkerCheck(w)
    \/ \E w \in Threads : WorkerGet(w)
    \/ \E w \in Threads : WorkerProcess(w)

\* Both the foreground thread and every live worker thread are scheduled.
SpecCallers ==
    /\ InitCallers
    /\ [][NextCallers]_vars
    /\ WF_vars(ForegroundStep)
    /\ \A w \in Threads : WF_vars(WorkerStep(w))

\* The retries of creator c's items that have succeeded
RetrySuccesses(c) ==
    Cardinality({i \in Ids : proc.owner[i] = c /\ outcome[i] = "success"})

(***************************************************************************)
(* C26: the files_downloaded that process_creator returns for a creator    *)
(* is the number of items download_files wrote for it plus the number of   *)
(* that creator's items whose retry succeeded: no earlier creator's retry  *)
(* is in it and no retry that was in flight when the queue was stopped is  *)
(* missing from it.                                                        *)
(***************************************************************************)
C26_CountsOwnRetries ==
    proc.flow = "update" =>
       \A c \in 1..Len(proc.reported) :
          proc.reported[c] = proc.written[c] + RetrySuccesses(c)

(***************************************************************************)
(* C27: every FailedDownload added to the retry queue is in the end        *)
(* attempted by the worker and ends as a successful retry or in            *)
(* permanently_failed, in the update flow and in the repair flow.          *)
(***************************************************************************)
C27_EveryFailureRetried ==
    \A i \in Ids :
       (outcome[i] = "pending") ~> (outcome[i] \in {"success", "failed"})

====
